---- MODULE Spec2Model ----
(***************************************************************************)
(* Model of finance/scripts/inform_prices_and_bollinger_stats.py:          *)
(* the signal aggregation of SignalGenerator.analyze, the batch loop of    *)
(* StockAnalyzer.analyze_all and the run of main.run_analysis.             *)
(*                                                                         *)
(* Specifications.  SpecAnalyze: one call of analyze, step by step.        *)
(* SpecTwice: two calls on one generator.  SpecScenario and SpecFlat:      *)
(* analyze on a declining and on a flat series of daily bars.              *)
(* SpecIndicators: the functions of TechnicalIndicators on short series.   *)
(* SpecReport: generate_report_content on small batches.  Spec: main with  *)
(* --test-email or through one run of run_analysis.  SpecMain: main with   *)
(* all its options, --provider and --schedule included.                    *)
(*                                                                         *)
(* Numbers.  A float that may be NaN is a set: {} is NaN and {n} is the    *)
(* number n, so that every comparison with NaN is false, as in Python.     *)
(* signal_strength is counted in half points (2 stands for 1.0, 1 for 0.5) *)
(* because the rule weights are 1 and 0.5.                                 *)
(***************************************************************************)
EXTENDS Integers, Sequences, FiniteSets, TLC

\* ------------------------------------------------------------------ bounds
\* The latest close of every modelled series; the other levels lie around it.
PriceLevel == 2
\* Config.STRONG_SIGNAL_THRESHOLD ranges over 1..MaxThreshold.
MaxThreshold == 2
\* analyze_all is given lists of 1..MaxSymbols symbols.
MaxSymbols == 2
\* The indicators are given series of 1..MaxBars bars,
MaxBars == 3
\* with closes in 2..MaxClose, highs and lows at most one above and below,
MaxClose == 3
\* and windows in 1..MaxWindow.
MaxWindow == 3
\* The declining series has ScenarioBars bars; it falls by 1..MaxStepDown a
\* bar and by 1..MaxLastDrop on the last bar.
ScenarioBars == 60
MaxStepDown == 2
MaxLastDrop == 10
\* The flat scenario: the constant close.
FlatPrice == 100

\* ------------------------------------------------------- program constants
BOLLINGER_WINDOW_SHORT == 10
BOLLINGER_WINDOW_LONG == 50
RSI_WINDOW == 14
RSI_OVERSOLD == 30
RSI_OVERBOUGHT == 70
STOCH_WINDOW == 14
STOCH_OVERSOLD == 20
STOCH_OVERBOUGHT == 80
SMA_SHORT_WINDOW == 20
SMA_LONG_WINDOW == 50
VOLUME_WINDOW == 20
STRONG_SIGNAL_THRESHOLD == 2
STOCH_D_WINDOW == 3
SMA_200_WINDOW == 200
NUM_STD == 2
MACD_FAST == 12
MACD_SLOW == 26
MACD_SIGNAL == 9

\* ----------------------------------------------------------------- floats
NaN == {}
Num(n) == {n}
Lt(a, b) == \E x \in a : \E y \in b : x < y
Gt(a, b) == \E x \in a : \E y \in b : x > y
Le(a, b) == \E x \in a : \E y \in b : x <= y
Ge(a, b) == \E x \in a : \E y \in b : x >= y

\* ------------------------------------------------- the indicator snapshot
\* What lines 385-416 of analyze read off the frame: the number of bars, the
\* latest close, and the latest value of every indicator series.  A rolling
\* indicator is NaN while the series is shorter than its window; the MACD and
\* signal lines are EMAs seeded by the first value, so with one bar both are 0.
Thresholds == 1..MaxThreshold

BarCounts == {1, 2, BOLLINGER_WINDOW_SHORT, RSI_WINDOW, SMA_SHORT_WINDOW, BOLLINGER_WINDOW_LONG}

\* <<lower, upper>> of a Bollinger envelope: above the price, collapsed onto
\* it (a flat window), below it.
BandPairs ==
    { <<Num(PriceLevel - 2), Num(PriceLevel - 1)>>,
      <<Num(PriceLevel), Num(PriceLevel)>>,
      <<Num(PriceLevel + 1), Num(PriceLevel + 2)>> }

Bands(n, window) == IF n >= window THEN BandPairs ELSE { <<NaN, NaN>> }

RsiValues(n) ==
    IF n >= RSI_WINDOW
    THEN { NaN, Num(RSI_OVERSOLD - 1), Num(RSI_OVERSOLD), Num(RSI_OVERBOUGHT + 1) }
    ELSE { NaN }

StochValues(n) ==
    IF n >= STOCH_WINDOW
    THEN { NaN, Num(STOCH_OVERSOLD - 1), Num(STOCH_OVERBOUGHT), Num(STOCH_OVERBOUGHT + 1) }
    ELSE { NaN }

\* <<current_macd, current_signal, macd_line.iloc[-2], signal_line.iloc[-2]>>
MacdValues(n) ==
    IF n >= 2
    THEN { <<Num(m), Num(1), Num(pm), Num(1)>> : m \in 0..2, pm \in 0..2 }
    ELSE { <<Num(0), Num(0), NaN, NaN>> }

\* <<sma_20, sma_50>>
SmaPairs(n) ==
    IF n >= SMA_LONG_WINDOW
    THEN { <<Num(PriceLevel - 1), Num(PriceLevel - 2)>>,
           <<Num(PriceLevel), Num(PriceLevel)>>,
           <<Num(PriceLevel - 1), Num(PriceLevel + 2)>>,
           <<Num(PriceLevel + 1), Num(PriceLevel + 2)>> }
    ELSE IF n >= SMA_SHORT_WINDOW
    THEN { <<Num(PriceLevel - 1), NaN>>, <<Num(PriceLevel + 1), NaN>> }
    ELSE { <<NaN, NaN>> }

\* <<'Volume' in df.columns, avg_volume, current_volume>>; the ratios are
\* 2, 3/2, 0 and, for an average of 0, the fallback 1.
VolumeValues(n) ==
    { <<FALSE, NaN, NaN>> } \cup
    ( IF n >= VOLUME_WINDOW
      THEN { <<TRUE, Num(2), Num(4)>>, <<TRUE, Num(2), Num(3)>>,
             <<TRUE, Num(2), Num(0)>>, <<TRUE, Num(0), Num(0)>> }
      ELSE { <<TRUE, NaN, Num(4)>> } )

Frame(n, bs, bl, r, m, s, k, v) ==
    [ n |-> n,
      current_price |-> Num(PriceLevel),
      bb_lower_short |-> bs[1], bb_upper_short |-> bs[2],
      bb_lower_long |-> bl[1], bb_upper_long |-> bl[2],
      current_rsi |-> r,
      current_macd |-> m[1], current_signal |-> m[2],
      prev_macd |-> m[3], prev_signal |-> m[4],
      sma_20 |-> s[1], sma_50 |-> s[2],
      current_stoch_k |-> k,
      has_volume |-> v[1], avg_volume |-> v[2], current_volume |-> v[3] ]

FramesOf(n) ==
    { Frame(n, bs, bl, r, m, s, k, v) :
        bs \in Bands(n, BOLLINGER_WINDOW_SHORT),
        bl \in Bands(n, BOLLINGER_WINDOW_LONG),
        r \in RsiValues(n), m \in MacdValues(n), s \in SmaPairs(n),
        k \in StochValues(n), v \in VolumeValues(n) }

\* The frame of an empty history (df.empty): no bar, nothing to read.
EmptyFrame ==
    Frame(0, <<NaN, NaN>>, <<NaN, NaN>>, NaN, <<NaN, NaN, NaN, NaN>>,
          <<NaN, NaN>>, NaN, <<TRUE, NaN, NaN>>)

\* ------------------------------------------------ SignalGenerator.analyze
\* The locals of analyze after "signals = []; signal_strength = 0;
\* action = 'HOLD'".  exc is the exception that ended the call, "" for none.
InitLocals ==
    [ signals |-> << >>, signal_strength |-> 0, action |-> "HOLD", exc |-> "" ]

\* Mutant of Fire: the weight is added and the entry is not appended.
FireWithoutEntry(loc, entry, weight) ==
    [ loc EXCEPT !.signal_strength = @ + weight ]

\* Mutant of Fire: the entry is put in front of the list.
FireInFront(loc, entry, weight) ==
    [ loc EXCEPT !.signals = << entry >> \o @,
                 !.signal_strength = @ + weight ]

\* A rule branch: append the entry, add the weight (in half points).
Fire(loc, entry, weight) ==
    [ loc EXCEPT !.signals = Append(@, entry),
                 !.signal_strength = @ + weight ]

\* close.iloc[-1] on a frame without bars.
ReadPrice(loc, df) ==
    IF df.n = 0 THEN [ loc EXCEPT !.exc = "IndexError" ] ELSE loc

\* Mutant of BBShortRule: a price on the band counts as a breach.
BBShortRuleNotStrict(loc, df) ==
    IF Le(df.current_price, df.bb_lower_short)
    THEN [ Fire(loc, "BB_SHORT: Price below lower band (oversold)", 2)
             EXCEPT !.action = "BUY" ]
    ELSE IF Ge(df.current_price, df.bb_upper_short)
    THEN [ Fire(loc, "BB_SHORT: Price above upper band (overbought)", -2)
             EXCEPT !.action = "SELL" ]
    ELSE loc

\* 1. Bollinger Bands (Short-term); also sets the provisional action.
BBShortRule(loc, df) ==
    IF Lt(df.current_price, df.bb_lower_short)
    THEN [ Fire(loc, "BB_SHORT: Price below lower band (oversold)", 2)
             EXCEPT !.action = "BUY" ]
    ELSE IF Gt(df.current_price, df.bb_upper_short)
    THEN [ Fire(loc, "BB_SHORT: Price above upper band (overbought)", -2)
             EXCEPT !.action = "SELL" ]
    ELSE loc

\* Mutant of BBLongRule: written as an elif of the short-term rule.
BBLongRuleElif(loc, df) ==
    IF loc.signals # << >> THEN loc
    ELSE IF Lt(df.current_price, df.bb_lower_long)
    THEN Fire(loc, "BB_LONG: Price below lower band (strong oversold)", 2)
    ELSE IF Gt(df.current_price, df.bb_upper_long)
    THEN Fire(loc, "BB_LONG: Price above upper band (strong overbought)", -2)
    ELSE loc

\* 2. Bollinger Bands (Long-term)
BBLongRule(loc, df) ==
    IF Lt(df.current_price, df.bb_lower_long)
    THEN Fire(loc, "BB_LONG: Price below lower band (strong oversold)", 2)
    ELSE IF Gt(df.current_price, df.bb_upper_long)
    THEN Fire(loc, "BB_LONG: Price above upper band (strong overbought)", -2)
    ELSE loc

\* Mutant of RsiRule: oversold written as "not at or above the level", which
\* an undefined RSI satisfies.
RsiRuleNotAtLeast(loc, df) ==
    IF ~Ge(df.current_rsi, Num(RSI_OVERSOLD))
    THEN Fire(loc, "RSI: Oversold", 2)
    ELSE IF Gt(df.current_rsi, Num(RSI_OVERBOUGHT))
    THEN Fire(loc, "RSI: Overbought", -2)
    ELSE loc

\* 3. RSI
RsiRule(loc, df) ==
    IF Lt(df.current_rsi, Num(RSI_OVERSOLD))
    THEN Fire(loc, "RSI: Oversold", 2)
    ELSE IF Gt(df.current_rsi, Num(RSI_OVERBOUGHT))
    THEN Fire(loc, "RSI: Overbought", -2)
    ELSE loc

\* Mutant of MacdRule: the previous bar is not looked at.
MacdRuleWithoutPrevious(loc, df) ==
    IF Gt(df.current_macd, df.current_signal)
    THEN Fire(loc, "MACD: Bullish crossover", 2)
    ELSE IF Lt(df.current_macd, df.current_signal)
    THEN Fire(loc, "MACD: Bearish crossover", -2)
    ELSE loc

\* 4. MACD.  "and" short-circuits: iloc[-2] is read only when the first
\* comparison holds, and raises IndexError on a one-bar series.
MacdRule(loc, df) ==
    IF Gt(df.current_macd, df.current_signal)
    THEN IF df.n < 2 THEN [ loc EXCEPT !.exc = "IndexError" ]
         ELSE IF Le(df.prev_macd, df.prev_signal)
         THEN Fire(loc, "MACD: Bullish crossover", 2)
         ELSE loc
    ELSE IF Lt(df.current_macd, df.current_signal)
    THEN IF df.n < 2 THEN [ loc EXCEPT !.exc = "IndexError" ]
         ELSE IF Ge(df.prev_macd, df.prev_signal)
         THEN Fire(loc, "MACD: Bearish crossover", -2)
         ELSE loc
    ELSE loc

\* 5. Moving Average Crossovers (len(sma_20) = len(sma_50) = df.n)
MaRule(loc, df) ==
    IF df.n > 0
    THEN IF Gt(df.current_price, df.sma_20) /\ Gt(df.sma_20, df.sma_50)
         THEN Fire(loc, "MA: Price above SMA(20) and SMA(50) - Uptrend", 1)
         ELSE IF Lt(df.current_price, df.sma_20) /\ Lt(df.sma_20, df.sma_50)
         THEN Fire(loc, "MA: Price below SMA(20) and SMA(50) - Downtrend", -1)
         ELSE loc
    ELSE loc

\* Mutant of StochRule: a full point instead of half a point.
StochRuleFullPoint(loc, df) ==
    IF Lt(df.current_stoch_k, Num(STOCH_OVERSOLD))
    THEN Fire(loc, "STOCH: Oversold", 2)
    ELSE IF Gt(df.current_stoch_k, Num(STOCH_OVERBOUGHT))
    THEN Fire(loc, "STOCH: Overbought", -2)
    ELSE loc

\* 6. Stochastic Oscillator
StochRule(loc, df) ==
    IF Lt(df.current_stoch_k, Num(STOCH_OVERSOLD))
    THEN Fire(loc, "STOCH: Oversold", 1)
    ELSE IF Gt(df.current_stoch_k, Num(STOCH_OVERBOUGHT))
    THEN Fire(loc, "STOCH: Overbought", -1)
    ELSE loc

\* Mutant of Classify: the strong thresholds compared with > and <.
ClassifyStrict(loc, threshold) ==
    [ loc EXCEPT !.action =
        IF loc.signal_strength > 2 * threshold THEN "STRONG BUY"
        ELSE IF loc.signal_strength >= 2 THEN "BUY"
        ELSE IF loc.signal_strength < -(2 * threshold) THEN "STRONG SELL"
        ELSE IF loc.signal_strength <= -2 THEN "SELL"
        ELSE "HOLD" ]

\* Mutant of Classify: no final else, the provisional action stays.
ClassifyKeepsProvisional(loc, threshold) ==
    [ loc EXCEPT !.action =
        IF loc.signal_strength >= 2 * threshold THEN "STRONG BUY"
        ELSE IF loc.signal_strength >= 2 THEN "BUY"
        ELSE IF loc.signal_strength <= -(2 * threshold) THEN "STRONG SELL"
        ELSE IF loc.signal_strength <= -2 THEN "SELL"
        ELSE loc.action ]

\* Determine final action based on signal strength (threshold in whole points).
Classify(loc, threshold) ==
    [ loc EXCEPT !.action =
        IF loc.signal_strength >= 2 * threshold THEN "STRONG BUY"
        ELSE IF loc.signal_strength >= 2 THEN "BUY"
        ELSE IF loc.signal_strength <= -(2 * threshold) THEN "STRONG SELL"
        ELSE IF loc.signal_strength <= -2 THEN "SELL"
        ELSE "HOLD" ]

\* Mutant of VolumeRule: a volume anomaly is scored like a rule.
VolumeRuleScored(loc, df) ==
    IF df.has_volume /\ Gt(df.avg_volume, Num(0))
    THEN IF \E c \in df.current_volume : \E a \in df.avg_volume : 2 * c > 3 * a
         THEN Fire(loc, "Volume: High", 1)
         ELSE IF \E c \in df.current_volume : \E a \in df.avg_volume : 2 * c < a
         THEN Fire(loc, "Volume: Low", -1)
         ELSE loc
    ELSE loc

\* volume_ratio = current_volume / avg_volume if avg_volume > 0 else 1,
\* compared with 1.5 and 0.5 without dividing.
VolumeRule(loc, df) ==
    IF df.has_volume
    THEN IF Gt(df.avg_volume, Num(0))
         THEN IF \E c \in df.current_volume : \E a \in df.avg_volume : 2 * c > 3 * a
              THEN [ loc EXCEPT !.signals = Append(@, "Volume: High") ]
              ELSE IF \E c \in df.current_volume : \E a \in df.avg_volume : 2 * c < a
              THEN [ loc EXCEPT !.signals = Append(@, "Volume: Low") ]
              ELSE loc
         ELSE loc
    ELSE loc

\* The 'indicators' entry of the result: the latest values (atr and sma_200,
\* which no rule reads, are left out).
Indicators(df) ==
    [ rsi |-> df.current_rsi,
      macd |-> df.current_macd,
      macd_signal |-> df.current_signal,
      bb_lower_short |-> df.bb_lower_short,
      bb_upper_short |-> df.bb_upper_short,
      bb_lower_long |-> df.bb_lower_long,
      bb_upper_long |-> df.bb_upper_long,
      stoch_k |-> df.current_stoch_k,
      sma_20 |-> df.sma_20,
      sma_50 |-> df.sma_50 ]

\* Mutant of BeginCall: the signals list lives on the generator and is not
\* emptied.
BeginCallKeepsSignals(loc) == [ InitLocals EXCEPT !.signals = loc.signals ]

\* signals = [], signal_strength = 0, action = "HOLD": every call starts
\* from fresh locals, whatever the call before left.
BeginCall(loc) == InitLocals

\* Compile results: the dictionary analyze returns (price_change_pct, which
\* needs the close before the latest, is left out).
Compile(loc, df) ==
    [ type |-> "dict",
      action |-> loc.action,
      signal_strength |-> loc.signal_strength,
      current_price |-> df.current_price,
      indicators |-> Indicators(df),
      signals |-> loc.signals ]

\* The steps of analyze in program order; a raised exception ends the call.
AnalyzeSteps ==
    << "read", "bb_short", "bb_long", "rsi", "macd", "ma", "stoch",
       "classify", "volume" >>

StepOf(step, loc, df, threshold) ==
    CASE step = "read" -> ReadPrice(loc, df)
      [] step = "bb_short" -> BBShortRule(loc, df)
      [] step = "bb_long" -> BBLongRule(loc, df)
      [] step = "rsi" -> RsiRule(loc, df)
      [] step = "macd" -> MacdRule(loc, df)
      [] step = "ma" -> MaRule(loc, df)
      [] step = "stoch" -> StochRule(loc, df)
      [] step = "classify" -> Classify(loc, threshold)
      [] step = "volume" -> VolumeRule(loc, df)

RECURSIVE RunSteps(_, _, _, _)
RunSteps(i, loc, df, threshold) ==
    IF i > Len(AnalyzeSteps) \/ loc.exc # "" THEN loc
    ELSE RunSteps(i + 1, StepOf(AnalyzeSteps[i], loc, df, threshold), df, threshold)

\* The whole call: the result dictionary, or the exception it raised.
analyze(df, threshold) ==
    LET loc == RunSteps(1, InitLocals, df, threshold)
    IN  IF loc.exc # "" THEN [ type |-> "exception", exc |-> loc.exc ]
        ELSE Compile(loc, df)

\* ---------------------------------------------------------------- float64
\* The arithmetic of the indicator series: NaN, the two infinities, and the
\* finite values as reduced fractions with a sign that zero keeps, as IEEE 754
\* has it.  Rounding is not modelled.
NaN64 == [ kind |-> "nan", sign |-> 1, num |-> 0, den |-> 1 ]
Inf64(s) == [ kind |-> "inf", sign |-> s, num |-> 0, den |-> 1 ]
Zero64(s) == [ kind |-> "fin", sign |-> s, num |-> 0, den |-> 1 ]

RECURSIVE GCD(_, _)
GCD(a, b) == IF b = 0 THEN a ELSE GCD(b, a % b)

\* s * n / d for naturals n and d > 0.
Ratio(s, n, d) ==
    IF n = 0 THEN Zero64(s)
    ELSE [ kind |-> "fin", sign |-> s, num |-> n \div GCD(n, d), den |-> d \div GCD(n, d) ]

Float(i) == IF i < 0 THEN Ratio(-1, -i, 1) ELSE Ratio(1, i, 1)

IsNaN(x) == x.kind = "nan"
IsFinite(x) == x.kind = "fin"

\* The numerator of a finite value over the denominator den * other.
Scaled(x, other) == x.sign * x.num * other.den

FNeg(x) == IF IsNaN(x) THEN x ELSE [ x EXCEPT !.sign = -x.sign ]

FAdd(x, y) ==
    IF IsNaN(x) \/ IsNaN(y) THEN NaN64
    ELSE IF x.kind = "inf"
    THEN IF y.kind = "inf" /\ y.sign # x.sign THEN NaN64 ELSE x
    ELSE IF y.kind = "inf" THEN y
    ELSE LET v == Scaled(x, y) + Scaled(y, x)
         IN  IF v = 0
             THEN Zero64(IF x.num = 0 /\ y.num = 0 /\ x.sign = -1 /\ y.sign = -1
                         THEN -1 ELSE 1)
             ELSE IF v < 0 THEN Ratio(-1, -v, x.den * y.den)
             ELSE Ratio(1, v, x.den * y.den)

FSub(x, y) == FAdd(x, FNeg(y))

FMul(x, y) ==
    IF IsNaN(x) \/ IsNaN(y) THEN NaN64
    ELSE IF x.kind = "inf" \/ y.kind = "inf"
    THEN IF (IsFinite(x) /\ x.num = 0) \/ (IsFinite(y) /\ y.num = 0)
         THEN NaN64 ELSE Inf64(x.sign * y.sign)
    ELSE Ratio(x.sign * y.sign, x.num * y.num, x.den * y.den)

FDiv(x, y) ==
    IF IsNaN(x) \/ IsNaN(y) THEN NaN64
    ELSE IF x.kind = "inf"
    THEN IF y.kind = "inf" THEN NaN64 ELSE Inf64(x.sign * y.sign)
    ELSE IF y.kind = "inf" THEN Zero64(x.sign * y.sign)
    ELSE IF y.num = 0
    THEN IF x.num = 0 THEN NaN64 ELSE Inf64(x.sign * y.sign)
    ELSE Ratio(x.sign * y.sign, x.num * y.den, x.den * y.num)

\* Comparisons: false when an operand is NaN.
FLt(x, y) ==
    /\ ~IsNaN(x) /\ ~IsNaN(y)
    /\ IF x.kind = "inf" THEN x.sign = -1 /\ ~(y.kind = "inf" /\ y.sign = -1)
       ELSE IF y.kind = "inf" THEN y.sign = 1
       ELSE Scaled(x, y) < Scaled(y, x)

FEq(x, y) ==
    /\ ~IsNaN(x) /\ ~IsNaN(y)
    /\ IF x.kind = "inf" \/ y.kind = "inf" THEN x.kind = y.kind /\ x.sign = y.sign
       ELSE Scaled(x, y) = Scaled(y, x)

FLe(x, y) == FLt(x, y) \/ FEq(x, y)

\* ---------------------------------------------------- TechnicalIndicators
RECURSIVE SumFrom(_, _, _)
\* f[a] + ... + f[b]
SumFrom(f, a, b) == IF a > b THEN 0 ELSE f[a] + SumFrom(f, a + 1, b)

RECURSIVE FSumFrom(_, _, _)
FSumFrom(f, a, b) == IF a > b THEN Zero64(1) ELSE FAdd(f[a], FSumFrom(f, a + 1, b))

MinOf(set) == CHOOSE x \in set : \A y \in set : x <= y
MaxOf(set) == CHOOSE x \in set : \A y \in set : x >= y

\* The positions of the window that ends at i.
WindowAt(i, window) == (i - window + 1)..i

\* prices.rolling(window).mean() on whole numbers: NaN before the window is
\* full (position i counts from 1).
sma(prices, window) ==
    [ i \in 1..Len(prices) |->
        IF i < window THEN NaN64
        ELSE FDiv(Float(SumFrom(prices, i - window + 1, i)), Float(window)) ]

\* prices.rolling(window).std() squared: the sample variance (ddof = 1),
\* 0 / 0 for a window of one value.
RollingVar(prices, window) ==
    [ i \in 1..Len(prices) |->
        IF i < window THEN NaN64
        ELSE LET sum == SumFrom(prices, i - window + 1, i)
                 squares == SumFrom([ j \in 1..Len(prices) |-> prices[j] * prices[j] ],
                                    i - window + 1, i)
             IN  FDiv(Float(window * squares - sum * sum), Float(window * (window - 1))) ]

\* base + side * sqrt(radicand): a band value, kept exact.
Band(base, radicand, side) == [ base |-> base, radicand |-> radicand, side |-> side ]

BandIsNaN(b) == IsNaN(b.base) \/ IsNaN(b.radicand)

\* The band value is the number x.
BandEquals(b, x) == FEq(b.radicand, Zero64(1)) /\ FEq(b.base, x)

\* x < base - sqrt(radicand), for a lower band.
BelowBand(x, b) ==
    /\ ~BandIsNaN(b)
    /\ FLt(x, b.base)
    /\ FLt(b.radicand, FMul(FSub(b.base, x), FSub(b.base, x)))

\* x > base + sqrt(radicand), for an upper band.
AboveBand(x, b) ==
    /\ ~BandIsNaN(b)
    /\ FLt(b.base, x)
    /\ FLt(b.radicand, FMul(FSub(x, b.base), FSub(x, b.base)))

\* Mutant of bollinger_bands: the bands lie num_std away from the average,
\* the deviation left out.
bollinger_bandsFixedWidth(prices, window, num_std) ==
    LET mean == sma(prices, window)
        std2 == RollingVar(prices, window)
    IN  [ upper |-> [ i \in 1..Len(prices) |->
                        Band(FAdd(mean[i], Float(num_std)), FMul(Zero64(1), std2[i]), 1) ],
          sma |-> mean,
          lower |-> [ i \in 1..Len(prices) |->
                        Band(FSub(mean[i], Float(num_std)), FMul(Zero64(1), std2[i]), -1) ] ]

\* bollinger_bands: sma + std * num_std and sma - std * num_std, with
\* (std * num_std)^2 as the radicand.
bollinger_bands(prices, window, num_std) ==
    LET mean == sma(prices, window)
        std2 == RollingVar(prices, window)
    IN  [ upper |-> [ i \in 1..Len(prices) |->
                        Band(mean[i], FMul(Float(num_std * num_std), std2[i]), 1) ],
          sma |-> mean,
          lower |-> [ i \in 1..Len(prices) |->
                        Band(mean[i], FMul(Float(num_std * num_std), std2[i]), -1) ] ]

\* prices.diff(); the first delta is NaN, which where(cond, 0) turns into 0.
Delta(prices, j) == IF j = 1 THEN 0 ELSE prices[j] - prices[j - 1]

\* delta.where(delta > 0, 0).rolling(window).mean()
RollingGain(prices, window) ==
    [ i \in 1..Len(prices) |->
        IF i < window THEN NaN64
        ELSE FDiv(Float(SumFrom([ j \in 1..Len(prices) |->
                                    IF Delta(prices, j) > 0 THEN Delta(prices, j) ELSE 0 ],
                                i - window + 1, i)),
                  Float(window)) ]

\* -delta.where(delta < 0, 0).rolling(window).mean(): the mean is negated,
\* so a window without a fall gives -0.0.
RollingLoss(prices, window) ==
    [ i \in 1..Len(prices) |->
        IF i < window THEN NaN64
        ELSE FNeg(FDiv(Float(SumFrom([ j \in 1..Len(prices) |->
                                         IF Delta(prices, j) < 0 THEN Delta(prices, j) ELSE 0 ],
                                     i - window + 1, i)),
                       Float(window))) ]

\* Mutant of rsi: the ratio is taken as loss / gain.
rsiLossOverGain(prices, window) ==
    LET gain == RollingGain(prices, window)
        loss == RollingLoss(prices, window)
    IN  [ i \in 1..Len(prices) |->
            FSub(Float(100), FDiv(Float(100), FAdd(Float(1), FDiv(loss[i], gain[i])))) ]

\* rsi: rs = gain / loss; rsi = 100 - (100 / (1 + rs))
rsi(prices, window) ==
    LET gain == RollingGain(prices, window)
        loss == RollingLoss(prices, window)
    IN  [ i \in 1..Len(prices) |->
            FSub(Float(100), FDiv(Float(100), FAdd(Float(1), FDiv(gain[i], loss[i])))) ]

\* low.rolling(window).min() and high.rolling(window).max()
RollingMin(series, window) ==
    [ i \in 1..Len(series) |->
        IF i < window THEN NaN64
        ELSE Float(MinOf({ series[j] : j \in WindowAt(i, window) })) ]

RollingMax(series, window) ==
    [ i \in 1..Len(series) |->
        IF i < window THEN NaN64
        ELSE Float(MaxOf({ series[j] : j \in WindowAt(i, window) })) ]

\* k.rolling(window=3).mean()
RollingMean3(k) ==
    [ i \in 1..Len(k) |->
        IF i < STOCH_D_WINDOW \/ \E j \in WindowAt(i, STOCH_D_WINDOW) : ~IsFinite(k[j])
        THEN NaN64
        ELSE FDiv(FSumFrom(k, i - STOCH_D_WINDOW + 1, i), Float(STOCH_D_WINDOW)) ]

\* Mutant of stochastic_oscillator: the close is measured against the close
\* the window began with instead of its lowest low.
stochastic_oscillatorFromFirstClose(high, low, close, window) ==
    LET lowest_low == RollingMin(low, window)
        highest_high == RollingMax(high, window)
        k == [ i \in 1..Len(close) |->
                 IF i < window THEN NaN64
                 ELSE FDiv(FMul(Float(100),
                                FSub(Float(close[i]), Float(close[i - window + 1]))),
                           FSub(highest_high[i], lowest_low[i])) ]
    IN  [ k |-> k, d |-> RollingMean3(k) ]

\* stochastic_oscillator: k = 100 * (close - lowest_low) / (highest_high - lowest_low)
stochastic_oscillator(high, low, close, window) ==
    LET lowest_low == RollingMin(low, window)
        highest_high == RollingMax(high, window)
        k == [ i \in 1..Len(close) |->
                 FDiv(FMul(Float(100), FSub(Float(close[i]), lowest_low[i])),
                      FSub(highest_high[i], lowest_low[i])) ]
    IN  [ k |-> k, d |-> RollingMean3(k) ]

\* A whole-number column as floats.
Floats(prices) == [ j \in 1..Len(prices) |-> Float(prices[j]) ]

\* One step of the exponentially weighted mean with alpha = 2 / (window + 1):
\* y = (1 - alpha) * y + alpha * x
EwmStep(y, x, window) ==
    LET alpha == FDiv(Float(2), Float(window + 1))
    IN  FAdd(FMul(FSub(Float(1), alpha), y), FMul(alpha, x))

RECURSIVE EwmFrom(_, _, _, _)
\* The means of positions i.. appended to those of the positions before i;
\* the first value seeds the average.  done holds exactly the i - 1 means
\* already computed, and reading its length settles each of them before the
\* next one is built on it.
EwmFrom(series, window, i, done) ==
    IF i > Len(series) \/ Len(done) # i - 1 THEN done
    ELSE EwmFrom(series, window, i + 1,
                 Append(done, IF i = 1 THEN series[1]
                              ELSE EwmStep(done[i - 1], series[i], window)))

\* ema: prices.ewm(span=window, adjust=False).mean()
ema(prices, window) == EwmFrom(prices, window, 1, << >>)

\* macd: macd_line = ema_fast - ema_slow; signal_line = ema(macd_line);
\* histogram = macd_line - signal_line
macd(prices, fast, slow, signal) ==
    LET ema_fast == ema(Floats(prices), fast)
        ema_slow == ema(Floats(prices), slow)
        macd_line == [ i \in 1..Len(prices) |-> FSub(ema_fast[i], ema_slow[i]) ]
        signal_line == ema(macd_line, signal)
    IN  [ macd_line |-> macd_line,
          signal_line |-> signal_line,
          histogram |-> [ i \in 1..Len(prices) |-> FSub(macd_line[i], signal_line[i]) ] ]

Abs(x) == IF x < 0 THEN -x ELSE x

\* tr = max(high - low, |high - close.shift()|, |low - close.shift()|); the
\* shifted close of the first bar is NaN, which max(axis=1) skips.
TrueRange(high, low, close) ==
    [ i \in 1..Len(close) |->
        MaxOf({ high[i] - low[i] } \cup
              ( IF i = 1 THEN { }
                ELSE { Abs(high[i] - close[i - 1]), Abs(low[i] - close[i - 1]) } )) ]

\* atr: tr.rolling(window).mean()
atr(high, low, close, window) ==
    LET tr == TrueRange(high, low, close)
    IN  [ i \in 1..Len(close) |->
            IF i < window THEN NaN64
            ELSE FDiv(Float(SumFrom(tr, i - window + 1, i)), Float(window)) ]

\* ------------------------------------------------------------------ state
VARIABLES
    config,      \* Config: STRONG_SIGNAL_THRESHOLD, ENABLE_HTML_OUTPUT, EMAIL_PROVIDER
    args,        \* the other options of the command line: provider, schedule
    test_email,  \* args.test_email
    a_pc,        \* one analyze call: the step it is at
    a_df,        \* one analyze call: self.df
    a_loc,       \* one analyze call: signals, signal_strength, action
    a_result,    \* one analyze call: the returned dictionary
    a_first,     \* the first call on the generator: its df, its config, its result
    pc,          \* run_analysis: where the run is
    symbols,     \* the list analyze_all was given
    idx,         \* position of the loop of analyze_all in symbols (from 1)
    results,     \* the dict of analyze_all, in insertion order: <<key, value>>
    fetched,     \* what the price source answered, per position of symbols
    log,         \* the records written to log
    emails,      \* the calls of send_email_to_inform
    report,      \* what generate_report_content returned
    output_page, \* the content of output_page.html
    i_pc,        \* the indicator calls: which one is next
    i_bars,      \* the bars given to the indicators: High, Low, Close
    i_window,    \* the window given to the indicators
    i_rsi,       \* what rsi returned
    i_stoch,     \* what stochastic_oscillator returned: k, d
    i_bb,        \* what bollinger_bands returned: upper, sma, lower
    i_sma,       \* what sma returned
    i_ema,       \* what ema returned
    i_macd,      \* what macd returned: macd_line, signal_line, histogram
    i_atr        \* what atr returned

vars ==
    << config, args, test_email, a_pc, a_df, a_loc, a_result, a_first, pc, symbols, idx, results,
       fetched, log, emails, report, output_page,
       i_pc, i_bars, i_window, i_rsi, i_stoch, i_bb, i_sma, i_ema, i_macd, i_atr >>

indicatorVars ==
    << i_pc, i_bars, i_window, i_rsi, i_stoch, i_bb, i_sma, i_ema, i_macd, i_atr >>
analyzeVars == << a_pc, a_df, a_loc, a_result, a_first >>
runVars ==
    << args, test_email, pc, symbols, idx, results, fetched, log, emails, report, output_page >>

None == [ type |-> "None" ]

\* What a generator was constructed with, and no result yet.
FirstCall(df, cfg) == [ df |-> df, config |-> cfg, result |-> None ]

\* EMAIL_PROVIDER comes from the environment or from --provider and is
\* compared after lower().
Providers == { "sendgrid", "Hotmail", "gmail" }

\* ENABLE_HTML_OUTPUT and ENABLE_EMAIL are literals of the class and nothing
\* assigns them.
Configs ==
    { [ STRONG_SIGNAL_THRESHOLD |-> t, ENABLE_HTML_OUTPUT |-> h, ENABLE_EMAIL |-> TRUE,
        EMAIL_PROVIDER |-> p ] :
        t \in Thresholds, h \in { TRUE }, p \in Providers }

\* A command line without --provider and without --schedule.
NoArgs == [ provider |-> "", schedule |-> FALSE ]

\* ------------------------------------------- one call of analyze, stepwise
NextStep(step) ==
    CASE step = "read" -> "bb_short"
      [] step = "bb_short" -> "bb_long"
      [] step = "bb_long" -> "rsi"
      [] step = "rsi" -> "macd"
      [] step = "macd" -> "ma"
      [] step = "ma" -> "stoch"
      [] step = "stoch" -> "classify"
      [] step = "classify" -> "volume"
      [] step = "volume" -> "compile"

\* One statement group of analyze; an exception leaves the call.
Step(step) ==
    /\ a_pc = step
    /\ a_loc' = StepOf(step, a_loc, a_df, config.STRONG_SIGNAL_THRESHOLD)
    /\ a_pc' = IF a_loc'.exc # "" THEN "raised" ELSE NextStep(step)
    /\ UNCHANGED << config, a_df, a_result, a_first, runVars, indicatorVars >>

StepRead == Step("read")
StepBBShort == Step("bb_short")
StepBBLong == Step("bb_long")
StepRsi == Step("rsi")
StepMacd == Step("macd")
StepMa == Step("ma")
StepStoch == Step("stoch")
StepClassify == Step("classify")
StepVolume == Step("volume")

StepCompile ==
    /\ a_pc = "compile"
    /\ a_result' = Compile(a_loc, a_df)
    /\ a_pc' = "returned"
    /\ UNCHANGED << config, a_df, a_loc, a_first, runVars, indicatorVars >>

NoOutput == [ type |-> "None" ]

IdleIndicators ==
    /\ i_pc = "idle" /\ i_bars = << >> /\ i_window = 0
    /\ i_rsi = << >> /\ i_stoch = NoOutput /\ i_bb = NoOutput
    /\ i_sma = << >> /\ i_ema = << >> /\ i_macd = NoOutput /\ i_atr = << >>

IdleRun ==
    /\ args = NoArgs /\ test_email = FALSE
    /\ pc = "idle" /\ symbols = << >> /\ idx = 1 /\ results = << >>
    /\ fetched = << >> /\ log = << >> /\ emails = << >>
    /\ report = None /\ output_page = None

InitAnalyze ==
    /\ config \in { c \in Configs : c.ENABLE_HTML_OUTPUT /\ c.EMAIL_PROVIDER = "sendgrid" }
    /\ \E n \in BarCounts : a_df \in FramesOf(n)
    /\ a_pc = "read"
    /\ a_loc = InitLocals
    /\ a_result = None
    /\ a_first = FirstCall(a_df, config)
    /\ IdleRun
    /\ IdleIndicators

NextAnalyze ==
    \/ StepRead \/ StepBBShort \/ StepBBLong \/ StepRsi \/ StepMacd
    \/ StepMa \/ StepStoch \/ StepClassify \/ StepVolume \/ StepCompile

SpecAnalyze == InitAnalyze /\ [][NextAnalyze]_vars

\* ------------------------------------- two calls of analyze on a generator
\* The generator is asked again after its first call returned: self.df and
\* self.config are as the first call left them, the locals are made anew.
CallAgain ==
    /\ a_pc = "returned"
    /\ a_first.result = None
    /\ a_first' = [ a_first EXCEPT !.result = a_result ]
    /\ a_result' = None
    /\ a_loc' = BeginCall(a_loc)
    /\ a_pc' = "read"
    /\ UNCHANGED << config, a_df, runVars, indicatorVars >>

InitTwice ==
    /\ InitAnalyze
    /\ config.STRONG_SIGNAL_THRESHOLD = STRONG_SIGNAL_THRESHOLD

NextTwice == NextAnalyze \/ CallAgain

SpecTwice == InitTwice /\ [][NextTwice]_vars

\* ---------------------------------------------------- send_email_to_inform
\* str.lower() on the provider names in use.
Lower(provider) == IF provider = "Hotmail" THEN "hotmail" ELSE provider

\* What the sender finds outside the program: the sendgrid import, the
\* environment variables, and what the mail service does with the message.
Worlds ==
    [ HAS_SENDGRID : BOOLEAN, SENDER_EMAIL : BOOLEAN, SENDGRID_API_KEY : BOOLEAN,
      SENDER_PASSWORD : BOOLEAN,
      service : { "accepted", "refused", "auth_error", "exception" } ]

Returns(value, record) == [ returned |-> value, exc |-> "", log |-> << record >> ]

\* Mutant of send_email_to_inform: the calls of the mail client are not
\* wrapped in try/except.
send_email_to_informUncaught(symbol, action, provider, world) ==
    IF Lower(provider) = "sendgrid"
    THEN IF ~world.HAS_SENDGRID
         THEN Returns(0, <<"error", "SendGrid library not installed", symbol>>)
         ELSE IF ~world.SENDER_EMAIL \/ ~world.SENDGRID_API_KEY
         THEN Returns(0, <<"error", "SENDER_EMAIL or SENDGRID_API_KEY not set", symbol>>)
         ELSE IF world.service = "accepted"
         THEN Returns(1, <<"info", "Email Sent Successfully via SendGrid", symbol>>)
         ELSE IF world.service = "refused"
         THEN Returns(0, <<"error", "Error sending email. Status Code", symbol>>)
         ELSE [ returned |-> 0, exc |-> "Exception", log |-> << >> ]
    ELSE IF Lower(provider) = "hotmail"
    THEN IF ~world.SENDER_EMAIL \/ ~world.SENDER_PASSWORD
         THEN Returns(0, <<"error", "SENDER_EMAIL or SENDER_PASSWORD not set", symbol>>)
         ELSE IF world.service = "accepted"
         THEN Returns(1, <<"info", "Email Sent Successfully via Hotmail", symbol>>)
         ELSE [ returned |-> 0, exc |-> "Exception", log |-> << >> ]
    ELSE Returns(0, <<"error", "Unsupported provider", symbol>>)

\* send_email_to_inform: 1 after a delivery, 0 after a logged failure.
send_email_to_inform(symbol, action, provider, world) ==
    IF Lower(provider) = "sendgrid"
    THEN IF ~world.HAS_SENDGRID
         THEN Returns(0, <<"error", "SendGrid library not installed", symbol>>)
         ELSE IF ~world.SENDER_EMAIL \/ ~world.SENDGRID_API_KEY
         THEN Returns(0, <<"error", "SENDER_EMAIL or SENDGRID_API_KEY not set", symbol>>)
         ELSE IF world.service = "accepted"
         THEN Returns(1, <<"info", "Email Sent Successfully via SendGrid", symbol>>)
         ELSE IF world.service = "refused"
         THEN Returns(0, <<"error", "Error sending email. Status Code", symbol>>)
         ELSE Returns(0, <<"error", "An unexpected error occurred", symbol>>)
    ELSE IF Lower(provider) = "hotmail"
    THEN IF ~world.SENDER_EMAIL \/ ~world.SENDER_PASSWORD
         THEN Returns(0, <<"error", "SENDER_EMAIL or SENDER_PASSWORD not set", symbol>>)
         ELSE IF world.service = "accepted"
         THEN Returns(1, <<"info", "Email Sent Successfully via Hotmail", symbol>>)
         ELSE IF world.service = "auth_error"
         THEN Returns(0, <<"error", "Failed to authenticate", symbol>>)
         ELSE Returns(0, <<"error", "An unexpected error occurred", symbol>>)
    ELSE Returns(0, <<"error", "Unsupported provider", symbol>>)

\* --------------------------------------------------------- EmailNotifier
\* send_alert: returned is its result, sent the calls of
\* send_email_to_inform it made; receiver is config.RECEIVER_EMAIL.
send_alert(symbol, analysis, cfg, world, receiver) ==
    IF ~cfg.ENABLE_EMAIL
    THEN [ returned |-> FALSE, sent |-> << >>,
           log |-> << <<"info", "Email disabled. Would send", symbol>> >> ]
    ELSE IF analysis.action = "HOLD"
    THEN [ returned |-> FALSE, sent |-> << >>, log |-> << >> ]
    ELSE IF Lower(cfg.EMAIL_PROVIDER) = "sendgrid"
            /\ ( ~world.SENDGRID_API_KEY \/ ~world.SENDER_EMAIL )
    THEN [ returned |-> FALSE, sent |-> << >>,
           log |-> << <<"warning", "SendGrid credentials not set", symbol>> >> ]
    ELSE IF Lower(cfg.EMAIL_PROVIDER) = "hotmail"
            /\ ( ~world.SENDER_EMAIL \/ ~world.SENDER_PASSWORD )
    THEN [ returned |-> FALSE, sent |-> << >>,
           log |-> << <<"warning", "Hotmail credentials not set", symbol>> >> ]
    ELSE IF receiver = ""
    THEN [ returned |-> FALSE, sent |-> << >>,
           log |-> << <<"warning", "Receiver email not set", symbol>> >> ]
    ELSE LET result == send_email_to_inform(symbol, analysis.action, cfg.EMAIL_PROVIDER, world)
         IN  [ returned |-> result.returned = 1,
               sent |-> << [ symbol |-> symbol, action |-> analysis.action,
                             provider |-> cfg.EMAIL_PROVIDER, rows |-> 0,
                             returned |-> result.returned ] >>,
               log |-> result.log ]

\* --------------------------------------------------------- StockAnalyzer
Symbols == { "A", "B" }

SymbolLists == UNION { [ 1..k -> Symbols ] : k \in 1..MaxSymbols }

\* The frames the price source hands to the batch: one bar, or a filled long
\* window; the short Bollinger bands and the RSI (off its levels) vary and
\* the other indicators do not signal.
BatchBarCounts == { 1, BOLLINGER_WINDOW_LONG }

QuietBands(n, window) ==
    IF n >= window THEN <<Num(PriceLevel), Num(PriceLevel)>> ELSE <<NaN, NaN>>

QuietMacd(n) ==
    IF n >= 2 THEN <<Num(1), Num(1), Num(1), Num(1)>> ELSE <<Num(0), Num(0), NaN, NaN>>

QuietSma(n) ==
    IF n >= SMA_LONG_WINDOW THEN <<Num(PriceLevel - 1), Num(PriceLevel + 2)>>
    ELSE IF n >= SMA_SHORT_WINDOW THEN <<Num(PriceLevel - 1), NaN>>
    ELSE <<NaN, NaN>>

BatchFramesOf(n) ==
    { Frame(n, bs, QuietBands(n, BOLLINGER_WINDOW_LONG), r, QuietMacd(n),
            QuietSma(n), NaN, <<FALSE, NaN, NaN>>) :
        bs \in Bands(n, BOLLINGER_WINDOW_SHORT),
        r \in RsiValues(n) \ { Num(RSI_OVERSOLD) } }

BatchFrames == UNION { BatchFramesOf(n) : n \in BatchBarCounts }

\* What yf.Ticker(symbol).history(...) does: raise, or return a frame that
\* may be empty.
SourceAnswers ==
    { [ raises |-> TRUE, df |-> EmptyFrame ] } \cup
    { [ raises |-> FALSE, df |-> f ] : f \in { EmptyFrame } \cup BatchFrames }

\* Mutant of fetch_data: df.empty is not tested.
fetch_dataNoEmptyCheck(symbol, answer) ==
    IF answer.raises
    THEN [ df |-> None, log |-> << <<"error", "Error fetching", symbol>> >> ]
    ELSE [ df |-> answer.df, log |-> << >> ]

\* fetch_data: the frame, or None after a logged failure.
fetch_data(symbol, answer) ==
    IF answer.raises
    THEN [ df |-> None, log |-> << <<"error", "Error fetching", symbol>> >> ]
    ELSE IF answer.df.n = 0
    THEN [ df |-> None, log |-> << <<"warning", "No data for", symbol>> >> ]
    ELSE [ df |-> answer.df, log |-> << >> ]

\* Mutant of analyze_symbol: the alert is sent for every analysed symbol,
\* HOLD included.
analyze_symbolAlertsAlways(symbol, answer, cfg) ==
    LET got == fetch_data(symbol, answer)
        log1 == << <<"info", "Analyzing", symbol>> >> \o got.log
    IN  IF got.df = None
        THEN [ value |-> None, exc |-> "", log |-> log1, sent |-> << >> ]
        ELSE LET analysis == analyze(got.df, cfg.STRONG_SIGNAL_THRESHOLD)
             IN  IF analysis.type = "exception"
                 THEN [ value |-> None, exc |-> analysis.exc, log |-> log1,
                        sent |-> << >> ]
                 ELSE [ value |-> analysis, exc |-> "", log |-> log1,
                        sent |-> << [ symbol |-> symbol, action |-> analysis.action,
                                      provider |-> cfg.EMAIL_PROVIDER, rows |-> 0,
                                      returned |-> 1 ] >> ]

\* analyze_symbol: value is what it returns, exc the exception it lets through,
\* sent the calls of send_email_to_inform it made.  The call of
\* self.notifier.send_alert is commented out: only the log line about the
\* alert is left, and sent is empty.
analyze_symbol(symbol, answer, cfg) ==
    LET got == fetch_data(symbol, answer)
        log1 == << <<"info", "Analyzing", symbol>> >> \o got.log
    IN  IF got.df = None
        THEN [ value |-> None, exc |-> "", log |-> log1, sent |-> << >> ]
        ELSE LET analysis == analyze(got.df, cfg.STRONG_SIGNAL_THRESHOLD)
             IN  IF analysis.type = "exception"
                 THEN [ value |-> None, exc |-> analysis.exc, log |-> log1,
                        sent |-> << >> ]
                 ELSE [ value |-> analysis, exc |-> "", sent |-> << >>,
                        log |-> log1 \o << <<"info", analysis.action, symbol>> >>
                                \o ( IF analysis.action # "HOLD"
                                     THEN << <<"info", "Sending email alert for", symbol>> >>
                                     ELSE << >> ) ]

\* results[key] = value on a dict kept in insertion order.
HasKey(d, key) == \E k \in 1..Len(d) : d[k][1] = key

Put(d, key, value) ==
    IF HasKey(d, key)
    THEN [ k \in 1..Len(d) |-> IF d[k][1] = key THEN <<key, value>> ELSE d[k] ]
    ELSE Append(d, <<key, value>>)

Get(d, key) == d[CHOOSE k \in 1..Len(d) : d[k][1] = key][2]

\* One round of the loop of analyze_all.
AnalyzeSymbol ==
    /\ pc = "analyze_all"
    /\ idx <= Len(symbols)
    /\ \E answer \in SourceAnswers :
         LET ret == analyze_symbol(symbols[idx], answer, config)
         IN  /\ fetched' = Append(fetched, [ raises |-> answer.raises, n |-> answer.df.n ])
             /\ log' = log \o ret.log
             /\ emails' = emails \o ret.sent
             /\ IF ret.exc # ""
                THEN /\ pc' = "raised"
                     /\ UNCHANGED << results, idx >>
                ELSE /\ results' = Put(results, symbols[idx], ret.value)
                     /\ idx' = idx + 1
                     /\ pc' = pc
    /\ UNCHANGED << config, args, test_email, analyzeVars, indicatorVars, symbols, report, output_page >>

\* _print_summary, which skips the None entries, and the return of analyze_all.
PrintSummary ==
    /\ pc = "analyze_all"
    /\ idx > Len(symbols)
    /\ log' = Append(log, <<"info", "ANALYSIS SUMMARY",
                           Len(SelectSeq(results, LAMBDA e : e[2] # None))>>)
    /\ pc' = "report"
    /\ UNCHANGED << config, args, test_email, analyzeVars, indicatorVars, symbols, idx, results, fetched, emails,
                    report, output_page >>

\* ------------------------------------------------ generate_report_content
\* The row of one item of report_data; data.get on None raises.
ReportRow(item) ==
    [ symbol |-> item[1],
      action |-> item[2].action,
      signal_strength |-> item[2].signal_strength,
      current_price |-> item[2].current_price,
      signals |-> item[2].signals ]

\* Mutant of generate_report_content: the entries with action HOLD are left
\* out of the report.
generate_report_contentSkipsHold(report_data) ==
    IF \E k \in 1..Len(report_data) : report_data[k][2] = None
    THEN [ type |-> "exception", exc |-> "AttributeError" ]
    ELSE LET shown == SelectSeq(report_data, LAMBDA item : item[2].action # "HOLD")
             rows == [ k \in 1..Len(shown) |-> ReportRow(shown[k]) ]
         IN  [ type |-> "report", html_rows |-> rows, text_lines |-> rows,
               text_summary |-> << "Trading Report for Today:" >> \o rows ]

\* generate_report_content: html_rows and text_lines get one item per round of
\* the loop over report_data.items(); text_summary is the header line joined
\* with the text lines (kept as the list of its lines).
generate_report_content(report_data) ==
    IF \E k \in 1..Len(report_data) : report_data[k][2] = None
    THEN [ type |-> "exception", exc |-> "AttributeError" ]
    ELSE LET rows == [ k \in 1..Len(report_data) |-> ReportRow(report_data[k]) ]
         IN  [ type |-> "report", html_rows |-> rows, text_lines |-> rows,
               text_summary |-> << "Trading Report for Today:" >> \o rows ]

\* -------------------------------------------------- main and run_analysis
\* main with --test-email: one message through config.EMAIL_PROVIDER, the
\* outcome is logged, and main returns.
TestEmail ==
    /\ pc = "test_email"
    /\ \E world \in Worlds :
         LET ret == send_email_to_inform("TEST", "TEST", config.EMAIL_PROVIDER, world)
         IN  /\ IF ret.exc # ""
                THEN /\ pc' = "raised"
                     /\ log' = log \o ret.log
                     /\ UNCHANGED emails
                ELSE /\ pc' = "done"
                     /\ log' = log \o ret.log \o
                           << IF ret.returned = 1
                              THEN <<"info", "Test email sent successfully", "TEST">>
                              ELSE <<"error", "Test email failed", "TEST">> >>
                     /\ emails' = Append(emails,
                            [ symbol |-> "TEST", action |-> "TEST",
                              provider |-> config.EMAIL_PROVIDER, rows |-> 0,
                              returned |-> ret.returned ])
    /\ UNCHANGED << config, args, test_email, analyzeVars, indicatorVars, symbols, idx, results, fetched,
                    report, output_page >>

GenerateReport ==
    /\ pc = "report"
    /\ report' = generate_report_content(results)
    /\ pc' = IF report'.type = "exception" THEN "raised" ELSE "send"
    /\ UNCHANGED << config, args, test_email, analyzeVars, indicatorVars, symbols, idx, results, fetched, log,
                    emails, output_page >>

\* send_email_to_inform(symbol="listAllSymbols", action="Summary", ...):
\* provider is left to its default, the return value is dropped, and the
\* call is made once.
SendSummary ==
    /\ pc = "send"
    /\ \E world \in Worlds :
         LET ret == send_email_to_inform("listAllSymbols", "Summary", "sendgrid", world)
         IN  /\ log' = log \o ret.log
             /\ IF ret.exc # ""
                THEN /\ pc' = "raised"
                     /\ UNCHANGED emails
                ELSE /\ pc' = "write"
                     /\ emails' = Append(emails,
                            [ symbol |-> "listAllSymbols", action |-> "Summary",
                              provider |-> "sendgrid", rows |-> Len(report.html_rows),
                              returned |-> ret.returned ])
    /\ UNCHANGED << config, args, test_email, analyzeVars, indicatorVars, symbols, idx, results, fetched,
                    report, output_page >>

WriteHtml ==
    /\ pc = "write"
    /\ output_page' = IF config.ENABLE_HTML_OUTPUT THEN report.html_rows ELSE output_page
    /\ pc' = "breakpoint"
    /\ UNCHANGED << config, args, test_email, analyzeVars, indicatorVars, symbols, idx, results, fetched, log,
                    emails, report >>

\* breakpoint() at the end of run_analysis hands the run to the debugger:
\* the operator lets it continue (or breakpoints are switched off), and the
\* run logs its end and returns, to the polling loop with --schedule; or the
\* debugger is quit (or has no input), and BdbQuit leaves main.
Breakpoint ==
    /\ pc = "breakpoint"
    /\ \E outcome \in { "continue", "quit" } :
         IF outcome = "continue"
         THEN /\ log' = Append(log, <<"info", "Analysis complete", "">>)
              /\ pc' = IF args.schedule THEN "poll" ELSE "done"
         ELSE /\ pc' = "quit"
              /\ UNCHANGED log
    /\ UNCHANGED << config, args, test_email, analyzeVars, indicatorVars, symbols, idx, results,
                    fetched, emails, report, output_page >>

\* The loop of main with --schedule: schedule.run_pending() calls run_analysis
\* when the job is due (an exception of the run leaves the loop and main).
\* log, emails and fetched hold the records since the run began.
RunPending ==
    /\ pc = "poll"
    /\ pc' = "analyze_all"
    /\ idx' = 1
    /\ results' = << >> /\ fetched' = << >>
    /\ log' = << >> /\ emails' = << >>
    /\ report' = None
    /\ UNCHANGED << config, args, test_email, analyzeVars, indicatorVars, symbols, output_page >>

\* main up to its branches: --provider, when given, replaces
\* config.EMAIL_PROVIDER; then the test email or the analysis.
Main ==
    /\ pc = "main"
    /\ config' = IF args.provider # ""
                 THEN [ config EXCEPT !.EMAIL_PROVIDER = args.provider ]
                 ELSE config
    /\ pc' = IF test_email THEN "test_email" ELSE "analyze_all"
    /\ UNCHANGED << args, test_email, analyzeVars, indicatorVars, symbols, idx, results, fetched,
                    log, emails, report, output_page >>

IdleAnalyze ==
    /\ a_pc = "idle" /\ a_df = EmptyFrame /\ a_loc = InitLocals /\ a_result = None
    /\ a_first = FirstCall(a_df, config)

\* An analysis run never reads EMAIL_PROVIDER (send_alert is not called and
\* the summary leaves provider to its default): two of its values are kept
\* there, all of them with --test-email.
Init ==
    /\ config \in Configs
    /\ test_email \in BOOLEAN
    /\ test_email \/ config.EMAIL_PROVIDER \in { "sendgrid", "Hotmail" }
    /\ args = NoArgs
    /\ IdleAnalyze
    /\ pc = "main"
    /\ symbols \in SymbolLists
    /\ idx = 1
    /\ results = << >>
    /\ fetched = << >>
    /\ log = << >>
    /\ emails = << >>
    /\ report = None
    /\ output_page = None
    /\ IdleIndicators

Next ==
    \/ Main
    \/ TestEmail
    \/ AnalyzeSymbol
    \/ PrintSummary
    \/ GenerateReport
    \/ SendSummary
    \/ WriteHtml
    \/ Breakpoint

Spec == Init /\ [][Next]_vars

\* -------------------------------------------- main with all its options
\* The command lines: --provider with one of its two choices or without,
\* --schedule or not; --symbols names one symbol.  ENABLE_EMAIL is the
\* literal of the class or edited to False.
CommandLines == [ provider : { "", "sendgrid", "hotmail" }, schedule : BOOLEAN ]

InitMain ==
    /\ \E c \in Configs : \E enable \in BOOLEAN :
          /\ c.STRONG_SIGNAL_THRESHOLD = STRONG_SIGNAL_THRESHOLD
          /\ config = [ c EXCEPT !.ENABLE_EMAIL = enable ]
    /\ args \in CommandLines
    /\ test_email \in BOOLEAN
    /\ test_email \/ config.EMAIL_PROVIDER \in { "sendgrid", "Hotmail" }
    /\ IdleAnalyze
    /\ pc = "main"
    /\ symbols \in [ 1..1 -> Symbols ]
    /\ idx = 1
    /\ results = << >>
    /\ fetched = << >>
    /\ log = << >>
    /\ emails = << >>
    /\ report = None
    /\ output_page = None
    /\ IdleIndicators

NextMain == Next \/ RunPending

SpecMain == InitMain /\ [][NextMain]_vars

\* The values a batch can hold: what analyze returns on the batch frames, and
\* the None that analyze_all stores for a symbol without data.
BatchValues == { None } \cup { analyze(f, STRONG_SIGNAL_THRESHOLD) : f \in BatchFrames }

\* A dict of up to MaxSymbols symbols, in insertion order, the empty one
\* included.
Batches ==
    UNION { { d \in [ 1..k -> Symbols \X BatchValues ] :
                \A i, j \in 1..k : d[i][1] = d[j][1] => i = j } : k \in 0..MaxSymbols }

InitReport ==
    /\ config \in { c \in Configs : c.STRONG_SIGNAL_THRESHOLD = STRONG_SIGNAL_THRESHOLD
                                     /\ c.EMAIL_PROVIDER = "sendgrid" }
    /\ IdleAnalyze
    /\ IdleIndicators
    /\ args = NoArgs /\ test_email = FALSE
    /\ results \in Batches
    /\ symbols = [ k \in 1..Len(results) |-> results[k][1] ]
    /\ idx = Len(symbols) + 1
    /\ pc = "report"
    /\ fetched = << >> /\ log = << >> /\ emails = << >>
    /\ report = None /\ output_page = None

SpecReport == InitReport /\ [][GenerateReport]_vars

\* ------------------------------------------- the indicators, call by call
\* A daily bar: Low <= Close <= High, the close at one end of the range.
BarShapes ==
    { [ High |-> c + r[1], Low |-> c - r[2], Close |-> c ] :
        c \in 2..MaxClose, r \in { << 0, 0 >>, << 1, 0 >>, << 0, 1 >> } }

BarSeries == UNION { [ 1..n -> BarShapes ] : n \in 1..MaxBars }

Column(bars, name) == [ j \in 1..Len(bars) |-> bars[j][name] ]

CallRsi ==
    /\ i_pc = "rsi"
    /\ i_rsi' = rsi(Column(i_bars, "Close"), i_window)
    /\ i_pc' = "stochastic_oscillator"
    /\ UNCHANGED << config, analyzeVars, runVars, i_bars, i_window, i_stoch, i_bb,
                    i_sma, i_ema, i_macd, i_atr >>

CallStochastic ==
    /\ i_pc = "stochastic_oscillator"
    /\ i_stoch' = stochastic_oscillator(Column(i_bars, "High"), Column(i_bars, "Low"),
                                        Column(i_bars, "Close"), i_window)
    /\ i_pc' = "bollinger_bands"
    /\ UNCHANGED << config, analyzeVars, runVars, i_bars, i_window, i_rsi, i_bb,
                    i_sma, i_ema, i_macd, i_atr >>

CallBollinger ==
    /\ i_pc = "bollinger_bands"
    /\ i_bb' = bollinger_bands(Column(i_bars, "Close"), i_window, NUM_STD)
    /\ i_pc' = "sma"
    /\ UNCHANGED << config, analyzeVars, runVars, i_bars, i_window, i_rsi, i_stoch,
                    i_sma, i_ema, i_macd, i_atr >>

CallSma ==
    /\ i_pc = "sma"
    /\ i_sma' = sma(Column(i_bars, "Close"), i_window)
    /\ i_pc' = "ema"
    /\ UNCHANGED << config, analyzeVars, runVars, i_bars, i_window, i_rsi, i_stoch, i_bb,
                    i_ema, i_macd, i_atr >>

CallEma ==
    /\ i_pc = "ema"
    /\ i_ema' = ema(Floats(Column(i_bars, "Close")), i_window)
    /\ i_pc' = "macd"
    /\ UNCHANGED << config, analyzeVars, runVars, i_bars, i_window, i_rsi, i_stoch, i_bb,
                    i_sma, i_macd, i_atr >>

\* macd with the fast span and the signal span i_window and the slow span
\* one longer.
CallMacd ==
    /\ i_pc = "macd"
    /\ i_macd' = macd(Column(i_bars, "Close"), i_window, i_window + 1, i_window)
    /\ i_pc' = "atr"
    /\ UNCHANGED << config, analyzeVars, runVars, i_bars, i_window, i_rsi, i_stoch, i_bb,
                    i_sma, i_ema, i_atr >>

CallAtr ==
    /\ i_pc = "atr"
    /\ i_atr' = atr(Column(i_bars, "High"), Column(i_bars, "Low"), Column(i_bars, "Close"),
                    i_window)
    /\ i_pc' = "returned"
    /\ UNCHANGED << config, analyzeVars, runVars, i_bars, i_window, i_rsi, i_stoch, i_bb,
                    i_sma, i_ema, i_macd >>

InitIndicators ==
    /\ config \in { c \in Configs : c.STRONG_SIGNAL_THRESHOLD = STRONG_SIGNAL_THRESHOLD
                                     /\ c.EMAIL_PROVIDER = "sendgrid" }
    /\ IdleAnalyze
    /\ IdleRun
    /\ i_pc = "rsi"
    /\ i_bars \in BarSeries
    /\ i_window \in 1..MaxWindow
    /\ i_rsi = << >> /\ i_stoch = NoOutput /\ i_bb = NoOutput
    /\ i_sma = << >> /\ i_ema = << >> /\ i_macd = NoOutput /\ i_atr = << >>

NextIndicators ==
    \/ CallRsi \/ CallStochastic \/ CallBollinger
    \/ CallSma \/ CallEma \/ CallMacd \/ CallAtr

SpecIndicators == InitIndicators /\ [][NextIndicators]_vars

\* ------------------------------------- analyze on a series of daily bars
\* The frame keeps, of each indicator, the side of its rule's levels the
\* latest value lies on; the latest close stands at PriceLevel.
BandLevels(lower, upper, price) ==
    IF BandIsNaN(lower) \/ BandIsNaN(upper) THEN <<NaN, NaN>>
    ELSE IF BelowBand(price, lower) THEN <<Num(PriceLevel + 1), Num(PriceLevel + 2)>>
    ELSE IF AboveBand(price, upper) THEN <<Num(PriceLevel - 2), Num(PriceLevel - 1)>>
    ELSE <<Num(PriceLevel), Num(PriceLevel)>>

RsiLevel(x) ==
    IF IsNaN(x) THEN NaN
    ELSE IF FLt(x, Float(RSI_OVERSOLD)) THEN Num(RSI_OVERSOLD - 1)
    ELSE IF FLt(Float(RSI_OVERBOUGHT), x) THEN Num(RSI_OVERBOUGHT + 1)
    ELSE Num(RSI_OVERSOLD)

StochLevel(x) ==
    IF IsNaN(x) THEN NaN
    ELSE IF FLt(x, Float(STOCH_OVERSOLD)) THEN Num(STOCH_OVERSOLD - 1)
    ELSE IF FLt(Float(STOCH_OVERBOUGHT), x) THEN Num(STOCH_OVERBOUGHT + 1)
    ELSE Num(STOCH_OVERBOUGHT)

SmaLevels(short, long, price) ==
    IF IsNaN(short) THEN <<NaN, NaN>>
    ELSE IF IsNaN(long)
    THEN << IF FLt(price, short) THEN Num(PriceLevel + 1) ELSE Num(PriceLevel - 1), NaN >>
    ELSE IF FLt(short, price) /\ FLt(long, short)
    THEN <<Num(PriceLevel - 1), Num(PriceLevel - 2)>>
    ELSE IF FLt(price, short) /\ FLt(short, long)
    THEN <<Num(PriceLevel + 1), Num(PriceLevel + 2)>>
    ELSE <<Num(PriceLevel), Num(PriceLevel)>>

\* Lines 385-416 on a history without a Volume column: the indicators are
\* computed from the bars and their latest values read.  The MACD values m
\* are not computed from the bars.
SnapshotOf(bars, m) ==
    LET close == Column(bars, "Close")
        n == Len(bars)
        price == Float(close[n])
        short == bollinger_bands(close, BOLLINGER_WINDOW_SHORT, NUM_STD)
        long == bollinger_bands(close, BOLLINGER_WINDOW_LONG, NUM_STD)
    IN  Frame(n,
              BandLevels(short.lower[n], short.upper[n], price),
              BandLevels(long.lower[n], long.upper[n], price),
              RsiLevel(rsi(close, RSI_WINDOW)[n]),
              m,
              SmaLevels(sma(close, SMA_SHORT_WINDOW)[n], sma(close, SMA_LONG_WINDOW)[n], price),
              StochLevel(stochastic_oscillator(Column(bars, "High"), Column(bars, "Low"),
                                               close, STOCH_WINDOW).k[n]),
              <<FALSE, NaN, NaN>>)

\* ScenarioBars bars with High = Low = Close, falling by step a bar and by
\* last on the last bar, down to 1.
Decline(step, last) ==
    [ j \in 1..ScenarioBars |->
        LET c == IF j = ScenarioBars THEN 1 ELSE 1 + last + step * (ScenarioBars - 1 - j)
        IN  [ High |-> c, Low |-> c, Close |-> c ] ]

InitScenario ==
    /\ config \in { c \in Configs : c.STRONG_SIGNAL_THRESHOLD = STRONG_SIGNAL_THRESHOLD
                                     /\ c.EMAIL_PROVIDER = "sendgrid" }
    /\ \E step \in 1..MaxStepDown : \E last \in 1..MaxLastDrop : i_bars = Decline(step, last)
    /\ i_pc = "idle" /\ i_window = 0
    /\ i_rsi = << >> /\ i_stoch = NoOutput /\ i_bb = NoOutput
    /\ i_sma = << >> /\ i_ema = << >> /\ i_macd = NoOutput /\ i_atr = << >>
    /\ \E m \in MacdValues(ScenarioBars) : a_df = SnapshotOf(i_bars, m)
    /\ a_pc = "read"
    /\ a_loc = InitLocals
    /\ a_result = None
    /\ a_first = FirstCall(a_df, config)
    /\ IdleRun

SpecScenario == InitScenario /\ [][NextAnalyze]_vars

\* Lines 403 and 412-413, 449: the side of the signal line the MACD line is
\* on, at the latest bar and at the one before it.
MacdSide(m, i) ==
    IF FLt(m.macd_line[i], m.signal_line[i]) THEN Num(0)
    ELSE IF FLt(m.signal_line[i], m.macd_line[i]) THEN Num(2)
    ELSE Num(1)

MacdLevels(m, n) ==
    IF n >= 2 THEN << MacdSide(m, n), Num(1), MacdSide(m, n - 1), Num(1) >>
    ELSE << Num(0), Num(0), NaN, NaN >>

\* ScenarioBars bars with High = Low = Close = price.
Flat(price) == [ j \in 1..ScenarioBars |-> [ High |-> price, Low |-> price, Close |-> price ] ]

\* One analyze call on a flat history: every indicator, MACD included, is
\* computed from the bars; the history may carry any Volume column.
InitFlat ==
    /\ \E price \in (FlatPrice - 1)..FlatPrice :
          LET close == Column(Flat(price), "Close")
              m == macd(close, MACD_FAST, MACD_SLOW, MACD_SIGNAL)
              read == SnapshotOf(Flat(price), MacdLevels(m, ScenarioBars))
          IN  /\ i_bars = Flat(price)
              /\ \E v \in VolumeValues(ScenarioBars) :
                    a_df = [ read EXCEPT !.has_volume = v[1], !.avg_volume = v[2],
                                         !.current_volume = v[3] ]
    /\ config \in { c \in Configs : c.EMAIL_PROVIDER = "sendgrid" }
    /\ i_pc = "idle" /\ i_window = 0
    /\ i_rsi = << >> /\ i_stoch = NoOutput /\ i_bb = NoOutput
    /\ i_sma = << >> /\ i_ema = << >> /\ i_macd = NoOutput /\ i_atr = << >>
    /\ a_pc = "read"
    /\ a_loc = InitLocals
    /\ a_result = None
    /\ a_first = FirstCall(a_df, config)
    /\ IdleRun

SpecFlat == InitFlat /\ [][NextAnalyze]_vars

\* ================================================================== claims
\* The statements below are checked on the model; SpecAnalyze is one call of
\* SignalGenerator.analyze over every frame, Spec is one run of run_analysis.

PcOrder ==
    << "read", "bb_short", "bb_long", "rsi", "macd", "ma", "stoch",
       "classify", "volume", "compile", "returned" >>

Pos(step) == CHOOSE k \in 1..Len(PcOrder) : PcOrder[k] = step

\* The call has executed the statement group `step`.
Past(step) == a_pc \in { PcOrder[k] : k \in (Pos(step) + 1)..Len(PcOrder) }

\* C1: the returned action is the first match of: s >= T -> STRONG BUY;
\* s >= 1 -> BUY; s <= -T -> STRONG SELL; s <= -1 -> SELL; otherwise HOLD
\* (s in half points, T in whole points).  With the default T = 2:
\* 2.5 -> STRONG BUY, 1 -> BUY, 0 -> HOLD, -1 -> SELL, -2 -> STRONG SELL.
C1_ActionIsFirstMatch ==
    a_pc = "returned" =>
        LET s == a_result.signal_strength
            T == config.STRONG_SIGNAL_THRESHOLD
            act == a_result.action
        IN  /\ s >= 2 * T => act = "STRONG BUY"
            /\ (s < 2 * T /\ s >= 2) => act = "BUY"
            /\ (s < 2 * T /\ s < 2 /\ s <= -(2 * T)) => act = "STRONG SELL"
            /\ (s < 2 * T /\ s < 2 /\ s > -(2 * T) /\ s <= -2) => act = "SELL"
            /\ (s < 2 * T /\ s < 2 /\ s > -(2 * T) /\ s > -2) => act = "HOLD"
            /\ T = STRONG_SIGNAL_THRESHOLD =>
                 /\ s = 5 => act = "STRONG BUY"
                 /\ s = 2 => act = "BUY"
                 /\ s = 0 => act = "HOLD"
                 /\ s = -2 => act = "SELL"
                 /\ s = -4 => act = "STRONG SELL"

\* C1 witness: a call with the default threshold that accumulated 2.5.
C1_Witness ==
    /\ a_pc = "returned"
    /\ config.STRONG_SIGNAL_THRESHOLD = STRONG_SIGNAL_THRESHOLD
    /\ a_result.signal_strength = 5
    /\ a_result.action = "STRONG BUY"

\* C2: two analyses of one run (same thresholds) that end with the same
\* signal_strength return the same action, whichever rules fired; the
\* provisional BUY/SELL of the short Bollinger rule does not survive.
C2_ActionDependsOnStrengthOnly ==
    \A i, j \in 1..Len(results) :
        ( /\ results[i][2] # None
          /\ results[j][2] # None
          /\ results[i][2].signal_strength = results[j][2].signal_strength )
        => results[i][2].action = results[j][2].action

\* C2 witness: two results of equal strength, one of them from a call in
\* which the short Bollinger rule fired (and was offset by the RSI rule).
C2_Witness ==
    /\ Len(results) = 2
    /\ results[1][2] # None
    /\ results[2][2] # None
    /\ results[1][2].signal_strength = results[2][2].signal_strength
    /\ results[1][2].signals = << >>
    /\ Len(results[2][2].signals) = 2
    /\ results[2][2].signals[1] = "BB_SHORT: Price below lower band (oversold)"
    /\ results[2][2].action = "HOLD"

\* The six scoring rules as section 4.2 states them: the weight (in half
\* points) each contributes on a frame, and the entry each appends.
ScoringRules == { "bb_short", "bb_long", "rsi", "macd", "ma", "stoch" }

Bullish(rule, df) ==
    CASE rule = "bb_short" -> Lt(df.current_price, df.bb_lower_short)
      [] rule = "bb_long" -> Lt(df.current_price, df.bb_lower_long)
      [] rule = "rsi" -> Lt(df.current_rsi, Num(RSI_OVERSOLD))
      [] rule = "macd" -> Gt(df.current_macd, df.current_signal)
                          /\ Le(df.prev_macd, df.prev_signal)
      [] rule = "ma" -> Gt(df.current_price, df.sma_20) /\ Gt(df.sma_20, df.sma_50)
      [] rule = "stoch" -> Lt(df.current_stoch_k, Num(STOCH_OVERSOLD))

Bearish(rule, df) ==
    CASE rule = "bb_short" -> Gt(df.current_price, df.bb_upper_short)
      [] rule = "bb_long" -> Gt(df.current_price, df.bb_upper_long)
      [] rule = "rsi" -> Gt(df.current_rsi, Num(RSI_OVERBOUGHT))
      [] rule = "macd" -> Lt(df.current_macd, df.current_signal)
                          /\ Ge(df.prev_macd, df.prev_signal)
      [] rule = "ma" -> Lt(df.current_price, df.sma_20) /\ Lt(df.sma_20, df.sma_50)
      [] rule = "stoch" -> Gt(df.current_stoch_k, Num(STOCH_OVERBOUGHT))

RuleWeight(rule) == IF rule \in { "ma", "stoch" } THEN 1 ELSE 2

BullEntry(rule) ==
    CASE rule = "bb_short" -> "BB_SHORT: Price below lower band (oversold)"
      [] rule = "bb_long" -> "BB_LONG: Price below lower band (strong oversold)"
      [] rule = "rsi" -> "RSI: Oversold"
      [] rule = "macd" -> "MACD: Bullish crossover"
      [] rule = "ma" -> "MA: Price above SMA(20) and SMA(50) - Uptrend"
      [] rule = "stoch" -> "STOCH: Oversold"

BearEntry(rule) ==
    CASE rule = "bb_short" -> "BB_SHORT: Price above upper band (overbought)"
      [] rule = "bb_long" -> "BB_LONG: Price above upper band (strong overbought)"
      [] rule = "rsi" -> "RSI: Overbought"
      [] rule = "macd" -> "MACD: Bearish crossover"
      [] rule = "ma" -> "MA: Price below SMA(20) and SMA(50) - Downtrend"
      [] rule = "stoch" -> "STOCH: Overbought"

\* How many entries of the list are `entry`.
Count(list, entry) == Cardinality({ k \in 1..Len(list) : list[k] = entry })

\* The weight the entries of one rule stand for.
EntriesWeight(list, rule) ==
    RuleWeight(rule) * (Count(list, BullEntry(rule)) - Count(list, BearEntry(rule)))

\* The weight the rule owes on the frame.
OwedWeight(rule, df) ==
    IF Bullish(rule, df) THEN RuleWeight(rule)
    ELSE IF Bearish(rule, df) THEN -RuleWeight(rule)
    ELSE 0

RECURSIVE SumOver(_, _)
SumOver(set, f) ==
    IF set = {} THEN 0
    ELSE LET x == CHOOSE y \in set : TRUE
         IN  f[x] + SumOver(set \ {x}, f)

\* C3: in every result, signal_strength is the sum of the weights of the
\* rules that fired (1 for both Bollinger rules, RSI and MACD, 0.5 for the
\* moving-average trend and Stochastic), and each rule that fired appended
\* exactly one entry to signals.
C3_StrengthIsSumOfFiredWeights ==
    a_pc = "returned" =>
        /\ a_result.signal_strength =
              SumOver(ScoringRules, [ r \in ScoringRules |-> OwedWeight(r, a_df) ])
        /\ a_result.signal_strength =
              SumOver(ScoringRules,
                      [ r \in ScoringRules |-> EntriesWeight(a_result.signals, r) ])
        /\ \A r \in ScoringRules :
              Count(a_result.signals, BullEntry(r)) + Count(a_result.signals, BearEntry(r))
                = IF OwedWeight(r, a_df) # 0 THEN 1 ELSE 0

\* C3 witness: a result to which a full-point and a half-point rule
\* contributed with opposite signs (RSI oversold, downtrend): strength 0.5.
C3_Witness ==
    /\ a_pc = "returned"
    /\ a_result.signal_strength = 1
    /\ Count(a_result.signals, "RSI: Oversold") = 1
    /\ Count(a_result.signals, "MA: Price below SMA(20) and SMA(50) - Downtrend") = 1

\* C4: every scoring rule is evaluated whatever the rules before it did: once
\* the call is past a rule whose own condition holds on the frame, that rule's
\* entry is in signals.
C4_EveryRuleEvaluated ==
    \A r \in ScoringRules :
        Past(r) =>
            /\ Bullish(r, a_df) => Count(a_loc.signals, BullEntry(r)) = 1
            /\ (~Bullish(r, a_df) /\ Bearish(r, a_df))
                 => Count(a_loc.signals, BearEntry(r)) = 1

\* C4 witness: a call in which all six rules fired, in mixed directions.
C4_Witness ==
    /\ a_pc = "returned"
    /\ \A r \in ScoringRules : OwedWeight(r, a_df) # 0
    /\ Bullish("bb_short", a_df)
    /\ Bearish("bb_long", a_df)
    /\ Len(SelectSeq(a_result.signals,
                     LAMBDA e : \E r \in ScoringRules : e \in { BullEntry(r), BearEntry(r) })) = 6

\* C5: the volume step changes neither signal_strength nor action; it only
\* appends at most one entry to signals.
C5_VolumeLeavesStrengthAndAction ==
    [][ a_pc = "volume" =>
          /\ a_loc'.signal_strength = a_loc.signal_strength
          /\ a_loc'.action = a_loc.action
          /\ Len(a_loc'.signals) \in { Len(a_loc.signals), Len(a_loc.signals) + 1 }
          /\ SubSeq(a_loc'.signals, 1, Len(a_loc.signals)) = a_loc.signals ]_vars

\* C5 witness: a call past the volume step that flagged high volume on a
\* frame no scoring rule fired on.
C5_Witness ==
    /\ Past("volume")
    /\ Count(a_loc.signals, "Volume: High") = 1
    /\ a_loc.signal_strength = 0
    /\ a_loc.action = "HOLD"

\* ------------------------------------------------------- the batch claims
\* The price source gave no frame for position i: it raised or it was empty.
Failed(i) == fetched[i].raises \/ fetched[i].n = 0

\* Position i is the last one among the processed positions naming its symbol.
LastOf(i) == \A j \in (i + 1)..Len(fetched) : symbols[j] # symbols[i]

\* analyze_all has returned.
Returned == idx > Len(symbols) /\ pc # "analyze_all"

\* The rolling windows of the indicators analyze computes.
Windows ==
    { BOLLINGER_WINDOW_SHORT, BOLLINGER_WINDOW_LONG, RSI_WINDOW, STOCH_WINDOW,
      STOCH_D_WINDOW, SMA_SHORT_WINDOW, SMA_LONG_WINDOW, SMA_200_WINDOW,
      VOLUME_WINDOW }

SmallestWindow == CHOOSE w \in Windows : \A v \in Windows : w <= v

\* C6: a symbol whose fetch is empty (or fails) is excluded from the mapping
\* analyze_all returns, and its skip is in the log.
C6_FailedSymbolExcluded ==
    Returned =>
        \A i \in 1..Len(fetched) :
            ( \A j \in 1..Len(fetched) : symbols[j] = symbols[i] => Failed(j) )
            => /\ ~HasKey(results, symbols[i])
               /\ \E k \in 1..Len(log) :
                     /\ log[k][1] \in { "warning", "error" }
                     /\ log[k][3] = symbols[i]

\* C7: analyze_all completes for every list and every answer of the price
\* source (raising, empty, one bar or more): no exception leaves the loop, and
\* on return every symbol that could be analysed has its result in the mapping.
C7_BatchAlwaysCompletes ==
    /\ pc = "raised" => idx > Len(symbols)
    /\ \A i \in 1..Len(fetched) :
          ( pc # "raised" /\ ~Failed(i) /\ LastOf(i) )
          => /\ HasKey(results, symbols[i])
             /\ Get(results, symbols[i]).type = "dict"
    /\ Returned => Len(fetched) = Len(symbols)

\* C7 witness: analyze_all returned for a list of two symbols, the first
\* fetch raising and the second giving a one-bar series that was analysed.
C7_Witness ==
    /\ pc = "report"
    /\ Len(symbols) = 2
    /\ symbols[1] # symbols[2]
    /\ fetched[1].raises
    /\ ~fetched[2].raises
    /\ fetched[2].n = 1
    /\ Get(results, symbols[2]).type = "dict"
    /\ Get(results, symbols[1]) = None

\* C8: a symbol whose series is non-empty but shorter than the smallest
\* rolling window is skipped: it has no result in the returned mapping.
C8_ShortSeriesSkipped ==
    Returned =>
        \A i \in 1..Len(fetched) :
            ( ~Failed(i) /\ LastOf(i) /\ fetched[i].n < SmallestWindow )
            => ( ~HasKey(results, symbols[i]) \/ Get(results, symbols[i]) = None )

\* C9: generate_report_content returns the report with the rows of all
\* entries that can be formatted, also when the batch holds a None entry.
C9_ReportSurvivesBadEntry ==
    ( Returned /\ pc # "report" ) =>
        /\ report.type = "report"
        /\ Len(report.html_rows) = Len(SelectSeq(results, LAMBDA e : e[2] # None))
        /\ Len(report.text_lines) = Len(SelectSeq(results, LAMBDA e : e[2] # None))

\* Where a run is once the summary call has returned.
AfterSend == { "write", "breakpoint", "done", "quit", "poll" }

ErrorsAbout(symbol) ==
    { j \in 1..Len(log) : log[j][1] = "error" /\ log[j][3] = symbol }

\* C11: a failed notification is only logged.  send_email_to_inform returns 0
\* without raising, whatever the failure (no library, missing credentials, a
\* refusal, an exception of the client, an unsupported provider); the call is
\* not retried; the analysis results are as they were when the report was
\* made; and the run goes on to write the report file.
C11_FailedSendOnlyLogged ==
    /\ pc = "raised" => ( ~test_email /\ report.type # "report" )
    /\ Len(emails) <= 1
    /\ \A k \in 1..Len(emails) :
          /\ emails[k].returned \in { 0, 1 }
          /\ emails[k].returned = 0 => ErrorsAbout(emails[k].symbol) # { }
    /\ ( ~test_email /\ emails # << >> /\ emails[1].returned = 0 ) =>
          /\ pc \in AfterSend
          /\ report = generate_report_content(results)
          /\ pc = "done" => output_page = report.html_rows

\* C11 witness: a finished analysis run whose summary met an exception of the
\* mail client, with the report file written.
C11_Witness ==
    /\ ~test_email
    /\ pc = "done"
    /\ Len(emails) = 1
    /\ emails[1].returned = 0
    /\ \E j \in ErrorsAbout("listAllSymbols") : log[j][2] = "An unexpected error occurred"
    /\ Len(results) = 2
    /\ output_page = report.html_rows

\* C12: analyze_all processes the symbols in list order, and its results
\* mapping is append-only with one write per symbol: every write adds the
\* entry of the symbol at the loop's position after the entries already
\* there, and no entry is ever overwritten, also for a list that names a
\* symbol twice.
C12_ResultsAppendOnly ==
    [][ results' # results =>
          /\ Len(results') = Len(results) + 1
          /\ SubSeq(results', 1, Len(results)) = results
          /\ results'[Len(results')][1] = symbols[idx] ]_vars

\* The latest indicator values a rule reads.
Reads(rule, df) ==
    CASE rule = "bb_short" -> { df.bb_lower_short, df.bb_upper_short }
      [] rule = "bb_long" -> { df.bb_lower_long, df.bb_upper_long }
      [] rule = "rsi" -> { df.current_rsi }
      [] rule = "macd" -> { df.current_macd, df.current_signal }
      [] rule = "ma" -> { df.sma_20, df.sma_50 }
      [] rule = "stoch" -> { df.current_stoch_k }

Undefined(rule, df) == NaN \in Reads(rule, df)

\* C13: an undefined latest indicator value disables only the rules that read
\* it: such a rule appends no entry and adds nothing to signal_strength, every
\* other rule contributes what it owes on the frame, an undefined average
\* volume appends no volume entry, and the call still returns a result.
C13_UndefinedDisablesOnlyItsRules ==
    /\ a_pc # "raised"
    /\ \A r \in ScoringRules :
          Past(r) =>
             IF Undefined(r, a_df)
             THEN Count(a_loc.signals, BullEntry(r)) + Count(a_loc.signals, BearEntry(r)) = 0
             ELSE EntriesWeight(a_loc.signals, r) = OwedWeight(r, a_df)
    /\ a_pc = "returned" =>
          /\ a_result.type = "dict"
          /\ a_result.signal_strength =
                SumOver({ r \in ScoringRules : ~Undefined(r, a_df) },
                        [ r \in ScoringRules |-> OwedWeight(r, a_df) ])
          /\ a_df.avg_volume = NaN =>
                Count(a_result.signals, "Volume: High") + Count(a_result.signals, "Volume: Low") = 0

\* C13 witness: a returned result on a frame whose RSI, long Bollinger bands
\* and SMA(50) are undefined while the short Bollinger rule and the
\* Stochastic rule fired.
C13_Witness ==
    /\ a_pc = "returned"
    /\ Undefined("rsi", a_df) /\ Undefined("bb_long", a_df) /\ Undefined("ma", a_df)
    /\ Count(a_result.signals, BullEntry("bb_short")) = 1
    /\ Count(a_result.signals, BearEntry("stoch")) = 1
    /\ a_result.signal_strength = 1

\* The positions of the given series at which a rolling window is full.
Warmed == { i \in 1..Len(i_bars) : i >= i_window }

Closes == Column(i_bars, "Close")

\* The rolling average loss of the given closes is zero at position i.
ZeroLoss(i) == FEq(RollingLoss(Closes, i_window)[i], Zero64(1))

ZeroGain(i) == FEq(RollingGain(Closes, i_window)[i], Zero64(1))

\* C14: rsi returns exactly 100 at every warmed index where the rolling
\* average loss is zero, whether the rolling average gain is positive or is
\* zero as well (a flat run).
C14_RsiIs100OnZeroLoss ==
    i_rsi # << >> =>
        \A i \in Warmed : ZeroLoss(i) => FEq(i_rsi[i], Float(100))

\* The rolling range (highest high minus lowest low) is zero at position i.
ZeroRange(i) ==
    FEq(RollingMax(Column(i_bars, "High"), i_window)[i],
        RollingMin(Column(i_bars, "Low"), i_window)[i])

\* C15: stochastic_oscillator returns %K = 50 exactly at every warmed index
\* where the rolling highest high equals the rolling lowest low.
C15_StochIs50OnZeroRange ==
    i_stoch # NoOutput =>
        \A i \in Warmed : ZeroRange(i) => FEq(i_stoch.k[i], Float(50))

InRange(x, low, high) == FLe(Float(low), x) /\ FLe(x, Float(high))

\* C16: for every price series and window, every value rsi returns at a
\* warmed index lies in [0, 100].
C16_RsiInRange ==
    i_rsi # << >> =>
        \A i \in Warmed : InRange(i_rsi[i], 0, 100)

ConstantSeries == \A j \in 1..Len(i_bars) : i_bars[j].Close = i_bars[1].Close

\* Both bands lie on the constant price at every warmed index.
BandsCollapsed ==
    \A i \in Warmed :
        /\ BandEquals(i_bb.upper[i], Float(i_bars[1].Close))
        /\ BandEquals(i_bb.lower[i], Float(i_bars[1].Close))

\* C18 as stated: for every constant price series and every window, the upper
\* and lower bands are equal at every index >= window - 1 and both equal the
\* constant price.
C18_BandsCollapseForEveryWindow ==
    ( i_bb # NoOutput /\ ConstantSeries ) => BandsCollapsed

\* C18 amended: the same for every window of at least two bars; with a window
\* of one bar the sample deviation is 0 / 0 and both bands are NaN.
C18_BandsCollapseOnConstantSeries ==
    ( i_bb # NoOutput /\ ConstantSeries ) =>
        IF i_window >= 2 THEN BandsCollapsed
        ELSE \A i \in Warmed : BandIsNaN(i_bb.upper[i]) /\ BandIsNaN(i_bb.lower[i])

\* C18 witness: the bands of a constant series of three bars with a window
\* of two.
C18_Witness ==
    /\ i_pc = "returned"
    /\ ConstantSeries
    /\ Len(i_bars) = 3
    /\ i_window = 2
    /\ BandsCollapsed

SteadyDecline ==
    \A j \in 2..(Len(i_bars) - 1) :
        i_bars[j - 1].Close - i_bars[j].Close = i_bars[j].Close - i_bars[j + 1].Close

BelowShortBand == Lt(a_df.current_price, a_df.bb_lower_short)
BelowLongBand == Lt(a_df.current_price, a_df.bb_lower_long)

\* C20 as stated: for a series that decreases monotonically over 60 bars, with
\* the short window 10 and the long window 50, the latest price is below both
\* Bollinger lower bands and RSI is below 30, so signal_strength >= 3 and the
\* action is STRONG BUY.
C20_DeclineIsStrongBuy ==
    a_pc = "returned" =>
        /\ BelowShortBand /\ BelowLongBand
        /\ Lt(a_df.current_rsi, Num(RSI_OVERSOLD))
        /\ a_result.signal_strength >= 6
        /\ a_result.action = "STRONG BUY"

\* C20 amended: on such a series RSI is below 30 and adds 1, %K is below 20
\* and adds 0.5, the downtrend takes 0.5, and each Bollinger rule adds 1 only
\* if the last fall took the price below its band; in a steady decline it is
\* below neither band and signal_strength is 1 without a MACD crossover (BUY),
\* at most 2 with one; where both bands are breached and MACD has no bearish
\* crossover, signal_strength >= 3 and the action is STRONG BUY.
C20_DeclineScoresByItsLastFall ==
    a_pc = "returned" =>
        /\ Lt(a_df.current_rsi, Num(RSI_OVERSOLD))
        /\ Count(a_result.signals, BullEntry("rsi")) = 1
        /\ Count(a_result.signals, BullEntry("stoch")) = 1
        /\ Count(a_result.signals, BearEntry("ma")) = 1
        /\ a_result.signal_strength =
              2 + ( IF BelowShortBand THEN 2 ELSE 0 ) + ( IF BelowLongBand THEN 2 ELSE 0 )
                + OwedWeight("macd", a_df)
        /\ SteadyDecline =>
              /\ ~BelowShortBand /\ ~BelowLongBand
              /\ a_result.signal_strength <= 4
              /\ OwedWeight("macd", a_df) = 0 =>
                    ( a_result.signal_strength = 2 /\ a_result.action = "BUY" )
        /\ ( BelowShortBand /\ BelowLongBand /\ ~Bearish("macd", a_df) ) =>
              ( a_result.signal_strength >= 6 /\ a_result.action = "STRONG BUY" )

\* C20 witness: the result on a steady decline without a MACD crossover,
\* strength 1.0 and BUY with no Bollinger entry.
C20_Witness ==
    /\ a_pc = "returned"
    /\ Len(i_bars) = ScenarioBars
    /\ SteadyDecline
    /\ OwedWeight("macd", a_df) = 0
    /\ a_result.signal_strength = 2
    /\ a_result.action = "BUY"
    /\ Count(a_result.signals, BullEntry("bb_short")) = 0
    /\ Count(a_result.signals, BullEntry("bb_long")) = 0

\* The series in i_bars is flat: one price on every bar.
FlatSeries ==
    \A j \in 1..Len(i_bars) :
        /\ i_bars[j].Close = i_bars[1].Close
        /\ i_bars[j].High = i_bars[1].Close
        /\ i_bars[j].Low = i_bars[1].Close

BollingerEntries ==
    { BullEntry("bb_short"), BearEntry("bb_short"), BullEntry("bb_long"), BearEntry("bb_long") }

\* C21: for a flat series of constant price over 60 bars RSI takes its
\* boundary value 100, analyze fires no Bollinger breach signal and returns
\* the action HOLD.
C21_FlatIsHoldWithRsi100 ==
    ( a_pc = "returned" /\ FlatSeries ) =>
        /\ FEq(rsi(Column(i_bars, "Close"), RSI_WINDOW)[Len(i_bars)], Float(100))
        /\ \A entry \in BollingerEntries : Count(a_result.signals, entry) = 0
        /\ a_result.action = "HOLD"

\* Every series the indicator calls returned, with the bars a rolling window
\* needs before its first value: sma, the bands, rsi, atr and %K need
\* i_window, %D two more, the exponential means one.
IndicatorSeries ==
    { << i_sma, i_window >>, << i_ema, 1 >>,
      << [ i \in 1..Len(i_bb.upper) |-> i_bb.upper[i].radicand ], i_window >>,
      << i_bb.sma, i_window >>,
      << [ i \in 1..Len(i_bb.lower) |-> i_bb.lower[i].radicand ], i_window >>,
      << i_rsi, i_window >>,
      << i_macd.macd_line, 1 >>, << i_macd.signal_line, 1 >>, << i_macd.histogram, 1 >>,
      << i_atr, i_window >>,
      << i_stoch.k, i_window >>, << i_stoch.d, i_window + STOCH_D_WINDOW - 1 >> }

\* C22: every indicator series has the length of its input series and the
\* same positions, and an entry is undefined only where the rolling window
\* lacks history.
C22_SeriesAlignedWithInput ==
    i_pc = "returned" =>
        \A s \in IndicatorSeries :
            /\ Len(s[1]) = Len(i_bars)
            /\ DOMAIN s[1] = DOMAIN i_bars
            /\ \A i \in 1..Len(s[1]) : IsNaN(s[1][i]) => i < s[2]

\* The MACD line is above the signal line now and was not at the bar before.
CrossesAbove ==
    /\ Le(a_df.prev_macd, a_df.prev_signal)
    /\ Gt(a_df.current_macd, a_df.current_signal)

CrossesBelow ==
    /\ Ge(a_df.prev_macd, a_df.prev_signal)
    /\ Lt(a_df.current_macd, a_df.current_signal)

\* The MACD line is on one side of the signal line at both bars.
SameSide ==
    \/ Gt(a_df.prev_macd, a_df.prev_signal) /\ Gt(a_df.current_macd, a_df.current_signal)
    \/ Lt(a_df.prev_macd, a_df.prev_signal) /\ Lt(a_df.current_macd, a_df.current_signal)

\* C23: the MACD rule adds 1 (two half points) and its bullish entry only
\* when the MACD line crosses above the signal line between the previous and
\* the current bar, takes 1 and appends its bearish entry only on the mirror
\* crossing, and changes nothing when the line stays on one side.
C23_MacdFiresOnlyOnCrossing ==
    [][ a_pc = "macd" =>
          /\ a_loc'.signal_strength - a_loc.signal_strength =
                ( IF CrossesAbove THEN 2 ELSE IF CrossesBelow THEN -2 ELSE 0 )
          /\ a_loc'.signals =
                ( IF CrossesAbove THEN Append(a_loc.signals, BullEntry("macd"))
                  ELSE IF CrossesBelow THEN Append(a_loc.signals, BearEntry("macd"))
                  ELSE a_loc.signals )
          /\ SameSide => a_loc' = a_loc ]_vars

\* C23 witness: the call just past the MACD rule, which fired bullish on a
\* frame whose MACD line came from below the signal line.
C23_Witness ==
    /\ a_pc = "ma"
    /\ Lt(a_df.prev_macd, a_df.prev_signal)
    /\ Gt(a_df.current_macd, a_df.current_signal)
    /\ Count(a_loc.signals, BullEntry("macd")) = 1

\* What one Bollinger envelope is worth, in half points: +1 with the latest
\* price strictly below the lower band, -1 strictly above the upper band.
BandScore(lower, upper) ==
    IF Lt(a_df.current_price, lower) THEN 2
    ELSE IF Gt(a_df.current_price, upper) THEN -2
    ELSE 0

ShortBandScore == BandScore(a_df.bb_lower_short, a_df.bb_upper_short)
LongBandScore == BandScore(a_df.bb_lower_long, a_df.bb_upper_long)

\* C24: the short and the long Bollinger rule are scored by the same logic,
\* each on its own bands and whatever the other did: +1 strictly below the
\* lower band, -1 strictly above the upper band, 0 otherwise; a price outside
\* both envelopes on one side has +2 or -2 after the two rules.
C24_BollingerRulesIndependent ==
    [][ /\ a_pc = "bb_short" =>
              a_loc'.signal_strength - a_loc.signal_strength = ShortBandScore
        /\ a_pc = "bb_long" =>
              /\ a_loc'.signal_strength - a_loc.signal_strength = LongBandScore
              /\ a_loc'.signal_strength = ShortBandScore + LongBandScore
              /\ ( BelowShortBand /\ BelowLongBand ) => a_loc'.signal_strength = 4
              /\ ( Gt(a_df.current_price, a_df.bb_upper_short)
                   /\ Gt(a_df.current_price, a_df.bb_upper_long) ) =>
                    a_loc'.signal_strength = -4 ]_vars

\* C24 witness: the call just past both Bollinger rules on a frame whose
\* price is below both lower bands: two entries, strength 2.0.
C24_Witness ==
    /\ a_pc = "rsi"
    /\ BelowShortBand /\ BelowLongBand
    /\ a_loc.signal_strength = 4
    /\ a_loc.signals = << BullEntry("bb_short"), BullEntry("bb_long") >>

\* C25: generate_report_content emits one HTML row and one text line per
\* entry of the batch, in the batch's order; an empty batch gives no rows and
\* a text summary that is the header line alone.
C25_OneRowAndLinePerEntry ==
    /\ ( report # None /\ \A k \in 1..Len(results) : results[k][2] # None ) =>
          report.type = "report"
    /\ report.type = "report" =>
          /\ Len(report.html_rows) = Len(results)
          /\ Len(report.text_lines) = Len(results)
          /\ \A k \in 1..Len(results) :
                /\ report.html_rows[k].symbol = results[k][1]
                /\ report.html_rows[k].action = results[k][2].action
                /\ report.text_lines[k].symbol = results[k][1]
                /\ report.text_lines[k].action = results[k][2].action
          /\ Tail(report.text_summary) = report.text_lines
          /\ results = << >> =>
                /\ report.html_rows = << >>
                /\ report.text_summary = << "Trading Report for Today:" >>

\* C25 witness: the report of a batch of two entries, the first a HOLD.
C25_Witness ==
    /\ report.type = "report"
    /\ Len(results) = 2
    /\ results[1][2].action = "HOLD"
    /\ results[2][2].action # "HOLD"
    /\ Len(report.html_rows) = 2
    /\ report.html_rows[1].symbol = results[1][1]

VolumeEntries == { "Volume: High", "Volume: Low" }

\* How many entries of the list come from the set.
CountIn(list, entries) == Cardinality({ k \in 1..Len(list) : list[k] \in entries })

\* C26: in every result signal_strength is a multiple of 0.5 in [-5, 5] (a
\* whole number of half points in -10..10), and signals holds at most seven
\* entries, at most one per rule: never both the bullish and the bearish
\* entry of a rule.
C26_StrengthAndSignalsBounded ==
    a_pc = "returned" =>
        /\ a_result.signal_strength \in -10..10
        /\ Len(a_result.signals) <= 7
        /\ \A r \in ScoringRules :
              CountIn(a_result.signals, { BullEntry(r), BearEntry(r) }) <= 1
        /\ CountIn(a_result.signals, VolumeEntries) <= 1
        /\ Len(a_result.signals) =
              CountIn(a_result.signals, VolumeEntries)
                + SumOver(ScoringRules,
                          [ r \in ScoringRules |->
                              CountIn(a_result.signals, { BullEntry(r), BearEntry(r) }) ])

\* C26 witness: a result on which every rule fired bullish and the volume
\* was flagged: strength 5.0, seven entries.
C26_Witness ==
    /\ a_pc = "returned"
    /\ a_result.signal_strength = 10
    /\ Len(a_result.signals) = 7

\* The place of an entry's rule in the order of analyze; the volume step is
\* the seventh and comes after the classification.
RuleOrder == << "bb_short", "bb_long", "rsi", "macd", "ma", "stoch", "volume" >>

Rank(entry) ==
    IF entry \in VolumeEntries THEN 7
    ELSE CHOOSE k \in 1..6 : entry \in { BullEntry(RuleOrder[k]), BearEntry(RuleOrder[k]) }

\* C27: the entries of signals stand in rule order (short Bollinger, long
\* Bollinger, RSI, MACD, trend, Stochastic, volume) at every point of the
\* call and in the result; a rule's entry is there only once the call is past
\* that rule, and the volume entry, added after the classification, is last.
C27_SignalsInRuleOrder ==
    /\ \A i, j \in 1..Len(a_loc.signals) :
          i < j => Rank(a_loc.signals[i]) < Rank(a_loc.signals[j])
    /\ \A i \in 1..Len(a_loc.signals) :
          /\ Past(RuleOrder[Rank(a_loc.signals[i])])
          /\ a_loc.signals[i] \in VolumeEntries =>
                ( Past("classify") /\ i = Len(a_loc.signals) )
    /\ a_pc = "returned" => a_result.signals = a_loc.signals

\* C27 witness: a result whose seven entries run from the short Bollinger
\* rule's bearish entry to the volume entry.
C27_Witness ==
    /\ a_pc = "returned"
    /\ Len(a_result.signals) = 7
    /\ a_result.signals[1] = BearEntry("bb_short")
    /\ a_result.signals[4] = BearEntry("macd")
    /\ a_result.signals[7] \in VolumeEntries

\* C28: with --provider, every email of the run (the test email, the summary)
\* goes through the chosen provider.
C28_EveryEmailThroughChosenProvider ==
    ( args.provider # "" /\ pc # "main" ) =>
        /\ config.EMAIL_PROVIDER = args.provider
        /\ \A k \in 1..Len(emails) : Lower(emails[k].provider) = args.provider

\* The analysis results send_alert can be given, and the receivers.
AlertInputs == ( BatchValues \ { None } ) \X Worlds \X { "", "receiver" }

\* C29: with ENABLE_EMAIL false an analysis run never calls
\* send_email_to_inform: send_alert returns False without sending, and the
\* run sends no summary.
C29_NoEmailWhenDisabled ==
    ( ~config.ENABLE_EMAIL /\ ~test_email ) =>
        /\ pc = "main" =>
              \A in \in AlertInputs :
                  LET ret == send_alert(symbols[1], in[1], config, in[2], in[3])
                  IN  ~ret.returned /\ ret.sent = << >>
        /\ emails = << >>

\* The program has ended: main returned, or an exception left it.
Ended == pc \in { "done", "raised", "quit" }

\* C30: in a run of run_analysis the summary is attempted only once
\* analyze_all has been through every symbol, and the report file is written
\* after the attempt; without --schedule there is the one run, and with
\* --schedule the first run is followed by the polling loop, which never ends
\* and is what starts every further run.
C30_OneRunOrPollingForEver ==
    /\ [][ ~test_email =>
             /\ Len(emails') > Len(emails) =>
                   ( pc = "send" /\ idx > Len(symbols) /\ Len(fetched) = Len(symbols) )
             /\ pc # "write" => output_page' = output_page
             /\ pc = "write" => Len(emails) = 1
             /\ ( pc' = "analyze_all" /\ pc # "analyze_all" ) =>
                   ( pc = "main" \/ ( args.schedule /\ pc = "poll" ) ) ]_vars
    /\ []( ~args.schedule => pc # "poll" )
    /\ []( ( args.schedule /\ ~test_email ) => ~Ended )

====
